---- MODULE Spec2Model ----
(***************************************************************************)
(* SkydellMedical ERP customisations: the client-side state machines of    *)
(* the MailDesk message list (request stamps, merge-by-key, cap), message  *)
(* selection, the NPI signup validator, the Terms & Conditions signature   *)
(* form and the checkout payment-fee widget.                               *)
(*                                                                         *)
(* Each subsystem has its own specification over its own variables; the    *)
(* variables of the other subsystems stay unchanged in it.                 *)
(*   Spec        MailDesk message list                                     *)
(*   SpecSelect  MailDesk.selectMessage                                    *)
(*   SpecOps     MailDesk flag/star operations and ContactPickerDialog     *)
(*   SpecNpi     NPI signup validation script                              *)
(*   SpecTerms   SignupSignatureForm.onClickSubmit                         *)
(*   SpecFee     PaymentFee widget                                         *)
(***************************************************************************)
EXTENDS Integers, Sequences, FiniteSets, TLC

VARIABLES
    \* ---- MailDesk message list (static_list.js, class MailDesk) ----
    messages,            \* state.messages: sequence of rows
    totalMessagesCount,  \* state.totalMessagesCount
    messageOffset,       \* state.messageOffset
    loadingMore,         \* state.loadingMore
    isRefreshing,        \* state.isRefreshing
    reqStamp,            \* this._reqStamp
    lightPending,        \* the 400 ms debounce timer of refreshLight is armed
    inflight,            \* list RPCs awaiting their answer
    mailbox,             \* server side: ids of the messages in the folder
    last,                \* history: what the most recent completion did
    done,                \* history: refreshMessages calls that completed successfully
    \* ---- MailDesk.selectMessage ----
    selTok,              \* this._selTok
    isLoadingMessage,    \* state.isLoadingMessage
    selectedMessage,     \* state.selectedMessage (0 = null, else the message id)
    selInflight,         \* get_message_with_attachments RPCs in flight
    selReadIds,          \* ids of list rows whose is_read is true
    selUnread,           \* unread_count of the current folder
    selLast,             \* history: what the most recent selectMessage completion did
    selLatest,           \* history: the most recent selectMessage call and its outcome
    \* ---- MailDesk flag operations, ContactPickerDialog ----
    opsInflight,         \* RPCs of the operations in flight
    opsRead,             \* ids of list rows whose is_read is true
    opsStarred,          \* ids of list rows whose is_starred is true
    opsUnread,           \* unread_count of the current folder
    opsHidden,           \* state.hiddenMessageIds (as a set)
    opsRows,             \* ids of the rows of state.messages (as a set)
    opsNotified,         \* operations whose RPC failure was caught and logged
    opsUnhandled,        \* operations whose RPC rejection escaped uncaught
    opsSelected,         \* state.selectedMessage: the id and the is_read of the object get_message_with_attachments returned (id 0: none)
    opsTrash,            \* history: per row, the phase of its latest deletion and the delete_messages calls made for it
    \* ---- NPI signup validation ----
    npiValue,            \* npiInput.value
    nameValue,           \* the signup name input's value
    isValidNPI,          \* closure variable isValidNPI
    npiDisabled,         \* npiInput.disabled
    validationTimeout,   \* the 500 ms validation timer is armed
    npiInflight,         \* fetches to /web/signup/validate_npi in flight
    npiFeedback,         \* the text class shown in the feedback div
    npiReported,         \* history: the (NPI, name) pairs the endpoint reported valid
    submitResult,        \* history: outcome of the most recent submit event
    \* ---- Terms & Conditions signature form ----
    termsHook,           \* window.signupTermsScrolled is defined
    termsScrolled,       \* what window.signupTermsScrolled() returns
    termsEverScrolled,   \* history: the user has scrolled the Terms to the bottom
    termsError,          \* state.error of the form
    termsSuccess,        \* state.success of the form
    termsInflight,       \* accept RPCs in flight (their params)
    termsSent,           \* history: number of accept RPCs sent
    termsRedirect,       \* a redirect / reload timer is pending
    \* ---- PaymentFee widget ----
    feeSelected,         \* the checked payment option (0 = none yet)
    updatingFee,         \* this._updatingFee
    feeInflight,         \* provider ids of update_fee RPCs in flight
    feeLastSent,         \* history: provider id of the last update_fee request (0 = none)
    feeSentCount,        \* history: number of update_fee requests sent
    feeLogged,           \* number of console.error calls of the widget
    feeUpdated,          \* history: the last update_fee answer was a success
    feeReloaded,         \* the page has been reloaded
    \* ---- MailDesk search box ----
    searchQuery,         \* state.searchQuery
    searchTimer,         \* ticks left on the timer of onDelayedSearch (-1 = not armed)
    searchSinceKey,      \* history: ticks since the last keystroke (capped)
    searchBurstCalls,    \* history: refreshMessages calls made for the current burst (-1 = no burst yet)
    searchCalls,         \* history: number of refreshMessages calls made by the search box
    searchCallQuery,     \* history: searchQuery when refreshMessages was last called
    searchCallGap,       \* history: ticks between the last keystroke and that call
    \* ---- OTP verification form (unnamed/part_000) ----
    otpValue,            \* otpInput.value, a sequence of characters
    otpTimers,           \* the 300 ms timers armed and not yet run: ticks left of each
    otpDue,              \* history: ticks since each event that left 6 digits in the field
    otpSubmitted,        \* otpForm.submit() has been called
    otpSubmitAge,        \* history: ticks between the event and the submit() it caused
    \* ---- Digit-only fields: one field and the last event on it ----
    dgField,             \* which field: otp (part_000) or npi (part_009)
    dgValue,             \* the field's value
    dgEvent,             \* the last event handled: none, input or paste
    dgRaw,               \* history: the text the event brought (field text after the keystroke, or clipboard text)
    \* ---- MailDesk composer: recipient lists (ComposeMail, EmailInputField) ----
    rcpLists,            \* state.To / state.Cc / state.Bcc: sequences of entry objects
    rcpNextRef,          \* identity of the next entry object created
    rcpInput,            \* inputValue of each EmailInputField
    rcpSuggestions,      \* suggestions of each EmailInputField (emails of partner records)
    \* ---- MailDesk composer: draft autosave (ComposeMail.saveDraft) ----
    drContent,           \* what the composer holds: body, subject, recipients, attachments
    draftMessageId,      \* state.draftMessageId, 0 for null
    lastSavedState,      \* the payload of the last successful save, or NoState
    autoSaveInterval,    \* the 60 s interval timer is set
    drInflight,          \* save_draft calls not yet answered: their payloads
    drSavedContent,      \* history: the content of the last successful save
    drLastTick,          \* history: what the last autosave tick did and what was due
    drCalls,             \* history: number of save_draft calls
    drSending,           \* state.sending
    drSendDraftId,       \* draft_id of the send_email payload sendMail has built
    drSendInflight,      \* send_email is in flight
    drSent,              \* history: the draft_id the last send_email carried and the draft stored before it
    drNullLive,          \* history: save_draft calls made with draft_id null that have not failed
    \* ---- List view column widths (computeWidths) ----
    cwColumns,           \* state.columns of the last call
    cwSelectors,         \* state.hasSelectors of the last call
    cwAllowed,           \* allowedWidth of the last call, in width units
    cwStart,             \* startingWidths of the data columns, in width units
    cwResult,            \* the data-column widths computeWidths returned, in width units
    cwSpread,            \* history: the call ended by spreading left-over space evenly
    cwCalled,            \* computeWidths has been called
    \* ---- MailDesk idle signalling (onMounted / onWillUnmount) ----
    idlePhase,           \* new, mounted or unmounted
    idlePos,             \* the account whose idle_subscribe onMounted awaits; 0 before, MaxAccounts + 1 after the loop
    idleTokens,          \* accounts that have a token in this._idleTokens
    idlePing,            \* the 30 s interval this._idlePing is active
    idleSubscribed,      \* history: accounts whose idle_subscribe call succeeded
    idleUnsubscribed,    \* history: accounts whose token was sent to idle_unsubscribe
    idleTouches,         \* history: number of interval ticks that sent idle_touch
    idleLate,            \* history: the calls issued after the unmount
    \* ---- ContactPickerDialog ----
    cpStarted,           \* onWillStart has run
    cpSearch,            \* state.search
    cpPage,              \* state.page
    cpTotal,             \* state.total
    cpResults,           \* state.results: the page of partners shown, by the domain and offset it was fetched with
    cpTagMap,            \* ids of the tags in state.tagMap
    cpDebounce,          \* the 300 ms timer of reloadDebounced is armed
    cpInflight,          \* reload() calls waiting for an answer
    \* ---- ColorPaletteConfig ----
    paPreset,            \* state.preset
    paApply,             \* where apply() is: idle, modules, gen, failed, reloaded
    paCall,              \* number of apply() calls made
    paGenNext,           \* index of the entry whose create genStyleAssets awaits
    paReset,             \* where the reset(true) of this page is: none, search, unlink, done
    paUnlinks,           \* unlink calls sent and not yet carried out by the server
    paAssets,            \* the ir.asset records whose path is under omux_color_scheme/static/set
    paLast,              \* history: the latest apply(): module installed, records at its reload, a record of its own deleted by its reset
    \* ---- OTP page: resend cooldown ----
    resendCooldown,      \* closure variable resendCooldown
    resendTimer,         \* closure variable resendTimer: the id of the timer armed last (0: null)
    rsPending,           \* ids of the setTimeout callbacks not yet run
    rsDisabled,          \* resendBtn.disabled
    rsText,              \* resendText.textContent
    rsClicks,            \* history: clicks on the Resend button
    rsTicks              \* history: timer callbacks run since the latest click

listVars  == <<messages, totalMessagesCount, messageOffset, loadingMore, isRefreshing,
               reqStamp, lightPending, inflight, mailbox, last, done>>
selVars   == <<selTok, isLoadingMessage, selectedMessage, selInflight, selReadIds,
               selUnread, selLast, selLatest>>
opsVars   == <<opsInflight, opsRead, opsStarred, opsUnread, opsHidden, opsRows,
               opsNotified, opsUnhandled, opsSelected, opsTrash>>
npiVars   == <<npiValue, nameValue, isValidNPI, npiDisabled, validationTimeout,
               npiInflight, npiFeedback, npiReported, submitResult>>
termsVars == <<termsHook, termsScrolled, termsEverScrolled, termsError, termsSuccess,
               termsInflight, termsSent, termsRedirect>>
feeVars   == <<feeSelected, updatingFee, feeInflight, feeLastSent, feeSentCount, feeLogged,
               feeUpdated, feeReloaded>>
searchVars == <<searchQuery, searchTimer, searchSinceKey, searchBurstCalls, searchCalls, searchCallQuery, searchCallGap>>
otpVars == <<otpValue, otpTimers, otpDue, otpSubmitted, otpSubmitAge>>
dgVars == <<dgField, dgValue, dgEvent, dgRaw>>
rcpVars == <<rcpLists, rcpNextRef, rcpInput, rcpSuggestions>>
drVars == <<drContent, draftMessageId, lastSavedState, autoSaveInterval, drInflight, drSavedContent, drLastTick, drCalls,
           drSending, drSendDraftId, drSendInflight, drSent, drNullLive>>
cwVars == <<cwColumns, cwSelectors, cwAllowed, cwStart, cwResult, cwSpread, cwCalled>>
idleVars == <<idlePhase, idlePos, idleTokens, idlePing, idleSubscribed, idleUnsubscribed, idleTouches, idleLate>>
cpVars == <<cpStarted, cpSearch, cpPage, cpTotal, cpResults, cpTagMap, cpDebounce, cpInflight>>
paVars == <<paPreset, paApply, paCall, paGenNext, paReset, paUnlinks, paAssets, paLast>>
rsVars == <<resendCooldown, resendTimer, rsPending, rsDisabled, rsText, rsClicks, rsTicks>>
vars      == <<listVars, selVars, opsVars, npiVars, termsVars, feeVars, searchVars, otpVars, dgVars, rcpVars, drVars, cwVars, idleVars, cpVars, paVars, rsVars>>

----------------------------------------------------------------------------
(* Bounds of the model *)

\* Messages the server holds: ids 1..MaxMsgId.
MaxMsgId == 3
\* _reqStamp is unbounded in the code; requests are issued while it is below this.
MaxStamp == 3
\* List RPCs in flight at the same time.
MaxInflight == 2

(* MAX_ROWS is 500 and messageLimit is 30 in the code (lines 1951, 104).   *)
(* Both are scaled down: a page is no larger than the cap, and the folder  *)
(* can hold more messages than the cap.                                    *)
MAX_ROWS == 2
messageLimit == 2

----------------------------------------------------------------------------
(* Server data.  A server record has a database id, an IMAP uid (0 stands  *)
(* for null: a record without uid, whose merge key falls back to its id)   *)
(* and a date.  A message has one id and one merge key: ids are unique,    *)
(* uids are unique, and no uid equals the id of a record without uid.      *)
(* One account and one folder are modelled, so the account and folder      *)
(* parts of the merge key are the same for every row.  Message 1 is the    *)
(* newest and is the record without uid.                                   *)

ServerMsg(i) ==
    [id |-> i, uid |-> IF i = 1 THEN 0 ELSE MaxMsgId + i, date |-> MaxMsgId + 1 - i]

\* A list row.  The client-side _sort_ts that _insertOrUpdateSorted stamps on
\* a row is the row's date whenever the date is valid, and every record
\* carries a valid date, so a row's sort key is its date and _sort_ts is not
\* stored.
Row(m) == [id |-> m.id, uid |-> m.uid, date |-> m.date]

\* The folder's records, newest first, as message_search_load orders them.
RECURSIVE NewestFirst(_)
NewestFirst(ids) ==
    IF ids = {} THEN <<>>
    ELSE LET i == CHOOSE x \in ids : \A y \in ids : ServerMsg(x).date >= ServerMsg(y).date
         IN  <<ServerMsg(i)>> \o NewestFirst(ids \ {i})

\* message_search_load(offset, limit): result.records
SearchLoad(ids, offset, limit) ==
    LET all == NewestFirst(ids)
        to  == IF offset + limit < Len(all) THEN offset + limit ELSE Len(all)
    IN  SubSeq(all, offset + 1, to)

\* result.totalMessagesCount (0 is falsy and triggers the `||` fallbacks).
SearchTotal(ids) == Cardinality(ids)

IdsOf(list) == { list[i].id : i \in DOMAIN list }

----------------------------------------------------------------------------
(* Pure helpers of MailDesk *)

\* _msgKey: `${acc}|${fld}|${uid ?? id}` with acc and fld fixed.
MsgKey(m) == IF m.uid = 0 THEN m.id ELSE m.uid

\* _getIndexByKey: findIndex, 0 when absent.
GetIndexByKey(list, key) ==
    IF \E i \in DOMAIN list : MsgKey(list[i]) = key
    THEN CHOOSE i \in DOMAIN list :
            /\ MsgKey(list[i]) = key
            /\ \A j \in 1..(i - 1) : MsgKey(list[j]) # key
    ELSE 0

\* The sort key of the comparator in _insertOrUpdateSorted:
\* a._sort_ts ?? (a.date ? new Date(a.date).getTime() : 0)
SortTs(a) == a.date

\* Insert x into a list sorted by descending Ts, after the rows that do not
\* sort behind it (Array.prototype.sort is stable).
RECURSIVE InsertDesc(_, _)
InsertDesc(sorted, x) ==
    IF sorted = <<>> THEN <<x>>
    ELSE IF SortTs(Head(sorted)) >= SortTs(x)
         THEN <<Head(sorted)>> \o InsertDesc(Tail(sorted), x)
         ELSE <<x>> \o sorted

RECURSIVE SortDescFrom(_, _)
SortDescFrom(sorted, rest) ==
    IF rest = <<>> THEN sorted
    ELSE SortDescFrom(InsertDesc(sorted, Head(rest)), Tail(rest))

\* list.sort((a, b) => bTs - aTs); SortSkipped is the variant without it.
SortSkipped(list) == list
SortByTsDesc(list) == SortDescFrom(<<>>, list)

\* if (list.length > MAX_ROWS) list.length = MAX_ROWS
Cap(list) == IF Len(list) > MAX_ROWS THEN SubSeq(list, 1, MAX_ROWS) ELSE list

\* One iteration of the loop over newMsgs in _insertOrUpdateSorted.
InsertOne(list, nm) ==
    LET row == Row(nm)
        idx == GetIndexByKey(list, MsgKey(row))
    IN  IF idx # 0 THEN [list EXCEPT ![idx] = row] ELSE Append(list, row)

RECURSIVE InsertAll(_, _)
InsertAll(list, newMsgs) ==
    IF newMsgs = <<>> THEN list
    ELSE InsertAll(InsertOne(list, Head(newMsgs)), Tail(newMsgs))

\* _insertOrUpdateSorted(newMsgs)
InsertOrUpdateSorted(list, newMsgs) == Cap(SortByTsDesc(InsertAll(list, newMsgs)))

----------------------------------------------------------------------------
(* refreshMessages: the merge of the answer into state.messages *)

\* Position of id in `next` (order.get(id)); next holds distinct records.
OrderOf(next, id) == CHOOSE i \in DOMAIN next : next[i].id = id

RECURSIVE InsertByOrder(_, _, _)
InsertByOrder(next, sorted, x) ==
    IF sorted = <<>> THEN <<x>>
    ELSE IF OrderOf(next, Head(sorted).id) <= OrderOf(next, x.id)
         THEN <<Head(sorted)>> \o InsertByOrder(next, Tail(sorted), x)
         ELSE <<x>> \o sorted

RECURSIVE SortByOrderFrom(_, _, _)
SortByOrderFrom(next, sorted, rest) ==
    IF rest = <<>> THEN sorted
    ELSE SortByOrderFrom(next, InsertByOrder(next, sorted, Head(rest)), Tail(rest))

\* Lines 505-531: rows already shown are overlaid with the new record
\* (Object.assign({}, msg, updated)), records not
\* shown yet are appended, and the result is sorted into the answer's order.
MergeRefresh(list, next) ==
    LET nextIds == { next[i].id : i \in DOMAIN next }
        kept    == SelectSeq(list, LAMBDA m : m.id \in nextIds)
        updated == [i \in DOMAIN kept |->
                      LET u == next[OrderOf(next, kept[i].id)]
                      IN  Row(u)]
        have    == IdsOf(kept)
        fresh   == SelectSeq(next, LAMBDA m : m.id \notin have)
        added   == [i \in DOMAIN fresh |-> Row(fresh[i])]
    IN  SortByOrderFrom(next, <<>>, updated \o added)

----------------------------------------------------------------------------
(* loadMoreMessages: the rows a page adds (lines 576-578) *)

\* `have` is the set of ids shown or already taken from the batch.
\* AddNewUnchecked is the variant that adds the whole batch.
AddNewUnchecked(have, batch, add) == add \o [i \in DOMAIN batch |-> Row(batch[i])]

RECURSIVE AddNew(_, _, _)
AddNew(have, batch, add) ==
    IF batch = <<>> THEN add
    ELSE IF Head(batch).id \in have
         THEN AddNew(have, Tail(batch), add)
         ELSE AddNew(have \cup {Head(batch).id}, Tail(batch), Append(add, Row(Head(batch))))

LoadMoreAdd(list, batch) == AddNew(IdsOf(list), batch, <<>>)

----------------------------------------------------------------------------
(* refreshLight: the merge of the answer (lines 354-370) *)

\* byKey = new Map(list.map(m => [key(m), m])): the last row of a key wins.
LastIndexByKey(list, key) ==
    IF \E i \in DOMAIN list : MsgKey(list[i]) = key
    THEN CHOOSE i \in DOMAIN list :
            /\ MsgKey(list[i]) = key
            /\ \A j \in (i + 1)..Len(list) : MsgKey(list[j]) # key
    ELSE 0

\* _safeMergeMessage(target, incoming): null values are skipped, so a null
\* uid leaves the target's uid in place.
SafeMergeMessage(target, incoming) ==
    [id |-> incoming.id,
     uid |-> IF incoming.uid = 0 THEN target.uid ELSE incoming.uid,
     date |-> IF incoming.date = 0 THEN target.date ELSE incoming.date]

\* byKey maps a key to the index of its row; it is built once from the list
\* and extended with the rows pushed, never re-keyed after a merge.
RECURSIVE LightLoop(_, _, _)
LightLoop(list, byKey, next) ==
    IF next = <<>> THEN list
    ELSE LET n == Head(next)
             k == MsgKey(n)
         IN  IF k \in DOMAIN byKey
             THEN LightLoop([list EXCEPT ![byKey[k]] = SafeMergeMessage(list[byKey[k]], n)],
                            byKey, Tail(next))
             ELSE LightLoop(Append(list, Row(n)),
                            [x \in DOMAIN byKey \cup {k} |->
                                IF x = k THEN Len(list) + 1 ELSE byKey[x]],
                            Tail(next))

\* byKey = new Map(list.map((m) => [this._msgKey(m), m]))
LightByKey(list) ==
    [k \in { MsgKey(list[i]) : i \in DOMAIN list } |-> LastIndexByKey(list, k)]

MergeLight(list, next) ==
    InsertOrUpdateSorted(LightLoop(list, LightByKey(list), next), <<>>)

----------------------------------------------------------------------------
(* History bookkeeping of the message list *)

NoLast == [kind |-> "none", stale |-> FALSE, ok |-> TRUE,
           changed |-> FALSE, msgsChanged |-> FALSE, unsortedBefore |-> FALSE]

\* Rows in descending order of their sort key.
IsSortedDesc(list) ==
    \A i \in 1..(Len(list) - 1) : SortTs(list[i]) >= SortTs(list[i + 1])

\* What a completion did to the three fields the list requests own.
Completion(kind, stale, ok, msgs, total, offset) ==
    [kind |-> kind, stale |-> stale, ok |-> ok,
     changed |-> (msgs # messages \/ total # totalMessagesCount \/ offset # messageOffset),
     msgsChanged |-> (msgs # messages),
     unsortedBefore |-> FALSE]

\* What a merge that ends in _insertOrUpdateSorted did; `before` is the list
\* as it stood when the sort began.
MergeCompletion(kind, stale, msgs, offset, before) ==
    [Completion(kind, stale, TRUE, msgs, totalMessagesCount, offset)
        EXCEPT !.unsortedBefore = ~stale /\ ~IsSortedDesc(before)]

\* A bus event, a refreshLight call, or a change of state.messages made by
\* anything but a successful refreshMessages, ends the "nothing else
\* happened" condition of the refreshMessages calls it overlaps.
Tainted(reqs) == { [r EXCEPT !.clean = FALSE] : r \in reqs }

Sully(reqs, msgs) == IF msgs # messages THEN Tainted(reqs) ELSE reqs

SullyDone(msgs) == IF msgs # messages THEN {} ELSE done

\* A new refreshMessages call: every earlier one has one more call after it.
Older(reqs) ==
    { [r EXCEPT !.later = IF r.kind = "refresh" THEN r.later + 1 ELSE r.later] : r \in reqs }

OlderDone == { [d EXCEPT !.later = d.later + 1] : d \in { e \in done : e.later = 0 } }

Request(kind, stamp, prev, off) ==
    [kind |-> kind, stamp |-> stamp, prev |-> prev, off |-> off, later |-> 0, clean |-> TRUE]

ByKind(kind) == { r \in inflight : r.kind = kind }

otherThanList == <<selVars, opsVars, npiVars, termsVars, feeVars, searchVars, otpVars, dgVars, rcpVars, drVars, cwVars, idleVars, cpVars, paVars, rsVars>>

----------------------------------------------------------------------------
(* MailDesk message list: actions *)

\* A completion is stale when the stamp it captured is no longer the latest
\* (refreshMessages line 503, refreshLight line 350, loadMoreMessages line 572).
\* IsStaleNever is the variant without the comparison.
IsStaleNever(r) == FALSE
IsStale(r) == r.stamp # reqStamp

\* refreshMessages up to its await (lines 479-492); filterBy and the
\* debounced search call it directly (lines 123, 988-992).
RefreshMessages ==
    /\ reqStamp < MaxStamp
    /\ Cardinality(inflight) < MaxInflight
    /\ reqStamp' = reqStamp + 1
    /\ isRefreshing' = TRUE
    /\ inflight' = Older(inflight) \cup { Request("refresh", reqStamp + 1, messages, 0) }
    /\ done' = OlderDone
    /\ last' = NoLast
    /\ UNCHANGED <<messages, totalMessagesCount, messageOffset, loadingMore,
                   lightPending, mailbox>>
    /\ UNCHANGED otherThanList

\* The answer of a refreshMessages call arrives (lines 503-547).
RefreshMessagesOk(r) ==
    LET page   == SearchLoad(mailbox, 0, messageLimit)
        total  == SearchTotal(mailbox)
        merged == MergeRefresh(messages, page)
        msgs   == IF IsStale(r) THEN messages ELSE merged
        tot    == IF IsStale(r) THEN totalMessagesCount
                  ELSE IF total # 0 THEN total ELSE Len(merged)
        off    == IF IsStale(r) THEN messageOffset ELSE Len(merged)
    IN  /\ r \in ByKind("refresh")
        /\ messages' = msgs
        /\ totalMessagesCount' = tot
        /\ messageOffset' = off
        /\ isRefreshing' = IF r.stamp = reqStamp THEN FALSE ELSE isRefreshing
        /\ inflight' = inflight \ {r}
        /\ done' = IF r.clean /\ r.later <= 1
                   THEN done \cup { [later |-> r.later, resp |-> page,
                                    late |-> \E d \in done : d.later < r.later] }
                   ELSE done
        /\ last' = Completion("refresh", r.stamp # reqStamp, TRUE, msgs, tot, off)
        /\ UNCHANGED <<loadingMore, reqStamp, lightPending, mailbox>>
        /\ UNCHANGED otherThanList

\* The RPC of a refreshMessages call fails (lines 538-547): the catch block
\* restores the snapshot taken when the call was issued.
RefreshMessagesFail(r) ==
    /\ r \in ByKind("refresh")
    /\ messages' = r.prev
    /\ isRefreshing' = IF r.stamp = reqStamp THEN FALSE ELSE isRefreshing
    /\ inflight' = Sully(inflight \ {r}, r.prev)
    /\ done' = SullyDone(r.prev)
    /\ last' = Completion("refresh", r.stamp # reqStamp, FALSE, r.prev,
                          totalMessagesCount, messageOffset)
    /\ UNCHANGED <<totalMessagesCount, messageOffset, loadingMore, reqStamp,
                   lightPending, mailbox>>
    /\ UNCHANGED otherThanList

\* loadMoreMessages up to its RPC (lines 550-569); the scroll listener and
\* the function itself do nothing while loadingMore is set.  The initial
\* load is this call at offset 0 (loadInitialMessages, line 443).
LoadMoreMessages ==
    /\ ~loadingMore
    /\ Cardinality(inflight) < MaxInflight
    /\ loadingMore' = TRUE
    /\ inflight' = inflight \cup { Request("more", reqStamp, <<>>, messageOffset) }
    /\ last' = NoLast
    /\ UNCHANGED <<messages, totalMessagesCount, messageOffset, isRefreshing, reqStamp,
                   lightPending, mailbox, done>>
    /\ UNCHANGED otherThanList

\* The page arrives (lines 570-586, 589-591); preselectMessageId is null.
LoadMoreOk(r) ==
    LET page == SearchLoad(mailbox, r.off, messageLimit)
        add  == LoadMoreAdd(messages, page)
        msgs == IF IsStale(r) THEN messages ELSE messages \o add
        tot  == IF IsStale(r) THEN totalMessagesCount ELSE SearchTotal(mailbox)
        off  == IF IsStale(r) THEN messageOffset ELSE r.off + Len(add)
    IN  /\ r \in ByKind("more")
        /\ messages' = msgs
        /\ totalMessagesCount' = tot
        /\ messageOffset' = off
        /\ loadingMore' = IF r.stamp = reqStamp THEN FALSE ELSE loadingMore
        /\ inflight' = Sully(inflight \ {r}, msgs)
        /\ done' = SullyDone(msgs)
        /\ last' = Completion("more", r.stamp # reqStamp, TRUE, msgs, tot, off)
        /\ UNCHANGED <<isRefreshing, reqStamp, lightPending, mailbox>>
        /\ UNCHANGED otherThanList

\* The page request fails (lines 587-591).
LoadMoreFail(r) ==
    /\ r \in ByKind("more")
    /\ loadingMore' = IF r.stamp = reqStamp THEN FALSE ELSE loadingMore
    /\ inflight' = inflight \ {r}
    /\ last' = Completion("more", r.stamp # reqStamp, FALSE, messages,
                          totalMessagesCount, messageOffset)
    /\ UNCHANGED <<messages, totalMessagesCount, messageOffset, isRefreshing, reqStamp,
                   lightPending, mailbox, done>>
    /\ UNCHANGED otherThanList

\* onAccountEvent asks for a light refresh: an "added" event without uids
\* and without inline meta, or a "flags" event without flags_map
\* (lines 260-262, 282-284).  The call (re)arms the 400 ms debounce.
BusRefreshLight ==
    /\ lightPending' = TRUE
    /\ inflight' = Tainted(inflight)
    /\ done' = {}
    /\ last' = NoLast
    /\ UNCHANGED <<messages, totalMessagesCount, messageOffset, loadingMore, isRefreshing,
                   reqStamp, mailbox>>
    /\ UNCHANGED otherThanList

\* The debounce fires: refreshLight up to its await (lines 308-344).
RefreshLightFire ==
    /\ lightPending
    /\ reqStamp < MaxStamp
    /\ Cardinality(inflight) < MaxInflight
    /\ lightPending' = FALSE
    /\ reqStamp' = reqStamp + 1
    /\ inflight' = Tainted(inflight) \cup { Request("light", reqStamp + 1, <<>>, 0) }
    /\ done' = {}
    /\ last' = NoLast
    /\ UNCHANGED <<messages, totalMessagesCount, messageOffset, loadingMore, isRefreshing,
                   mailbox>>
    /\ UNCHANGED otherThanList

\* The answer of refreshLight arrives (lines 350-371).
RefreshLightOk(r) ==
    LET page   == SearchLoad(mailbox, 0, messageLimit)
        merged == MergeLight(messages, page)
        msgs   == IF IsStale(r) THEN messages ELSE merged
        off    == IF IsStale(r) THEN messageOffset ELSE Len(merged)
    IN  /\ r \in ByKind("light")
        /\ messages' = msgs
        /\ messageOffset' = off
        /\ inflight' = Sully(inflight \ {r}, msgs)
        /\ done' = SullyDone(msgs)
        /\ last' = MergeCompletion("light", r.stamp # reqStamp, msgs, off,
                                   LightLoop(messages, LightByKey(messages), page))
        /\ UNCHANGED <<totalMessagesCount, loadingMore, isRefreshing, reqStamp,
                       lightPending, mailbox>>
        /\ UNCHANGED otherThanList

\* The RPC of refreshLight fails (lines 345-348).
RefreshLightFail(r) ==
    /\ r \in ByKind("light")
    /\ inflight' = inflight \ {r}
    /\ last' = Completion("light", r.stamp # reqStamp, FALSE, messages,
                          totalMessagesCount, messageOffset)
    /\ UNCHANGED <<messages, totalMessagesCount, messageOffset, loadingMore, isRefreshing,
                   reqStamp, lightPending, mailbox, done>>
    /\ UNCHANGED otherThanList

\* A bus "added" event that carries the row of a message of the folder inline
\* (lines 239-245).
BusAddedInline(i) ==
    LET msgs == InsertOrUpdateSorted(messages, <<ServerMsg(i)>>)
    IN  /\ i \in mailbox
        /\ messages' = msgs
        /\ inflight' = Tainted(inflight)
        /\ done' = {}
        /\ last' = MergeCompletion("bus", FALSE, msgs, messageOffset,
                                   InsertAll(messages, <<ServerMsg(i)>>))
        /\ UNCHANGED <<totalMessagesCount, messageOffset, loadingMore, isRefreshing,
                       reqStamp, lightPending, mailbox>>
        /\ UNCHANGED otherThanList

\* Server side: a message arrives in the folder.
ServerNewMail(i) ==
    /\ i \in 1..MaxMsgId
    /\ i \notin mailbox
    /\ mailbox' = mailbox \cup {i}
    /\ last' = NoLast
    /\ UNCHANGED <<messages, totalMessagesCount, messageOffset, loadingMore, isRefreshing,
                   reqStamp, lightPending, inflight, done>>
    /\ UNCHANGED otherThanList

----------------------------------------------------------------------------
(* The MailDesk message list *)

\* MailDesk.setup (lines 90-117); totalMessagesCount null is written 0.
ListInit ==
    /\ messages = <<>>
    /\ totalMessagesCount = 0
    /\ messageOffset = 0
    /\ loadingMore = FALSE
    /\ isRefreshing = FALSE
    /\ reqStamp = 0
    /\ lightPending = FALSE
    /\ inflight = {}
    /\ mailbox = {}
    /\ last = NoLast
    /\ done = {}

ListNext ==
    \/ RefreshMessages
    \/ \E r \in inflight : RefreshMessagesOk(r)
    \/ \E r \in inflight : RefreshMessagesFail(r)
    \/ LoadMoreMessages
    \/ \E r \in inflight : LoadMoreOk(r)
    \/ \E r \in inflight : LoadMoreFail(r)
    \/ BusRefreshLight
    \/ RefreshLightFire
    \/ \E r \in inflight : RefreshLightOk(r)
    \/ \E r \in inflight : RefreshLightFail(r)
    \/ \E i \in 1..MaxMsgId : BusAddedInline(i)
    \/ \E i \in 1..MaxMsgId : ServerNewMail(i)

----------------------------------------------------------------------------
(* MailDesk.selectMessage *)

\* Rows of the list that can be clicked.
MaxSelMsg == 2
\* _selTok is unbounded in the code; messages are selected while it is below this.
MaxSelTok == 4
\* get_message_with_attachments RPCs in flight at the same time.
MaxSelInflight == 2

SelRows == 1..MaxSelMsg

otherThanSel == <<listVars, opsVars, npiVars, termsVars, feeVars, searchVars, otpVars, dgVars, rcpVars, drVars, cwVars, idleVars, cpVars, paVars, rsVars>>

NoSelLast == [stale |-> FALSE, wrote |-> FALSE]

\* _bumpFolderUnread: Math.max(0, cur + delta) on the current folder.
BumpFolderUnread(cur, delta) == IF cur + delta < 0 THEN 0 ELSE cur + delta

\* The token checks of selectMessage: `this._selTok !== token` (lines 639,
\* 678) and the negation of `this._selTok === token` (line 681).
\* SelCancelledNever is the variant without the comparison.
SelCancelledNever(r) == FALSE
SelCancelled(r) == selTok # r.token

\* selectMessage up to its await (lines 621-638).
SelectMessage(i) ==
    /\ i \in SelRows
    /\ selTok < MaxSelTok
    /\ Cardinality(selInflight) < MaxSelInflight
    /\ selTok' = selTok + 1
    /\ isLoadingMessage' = TRUE
    /\ selInflight' = selInflight \cup
           { [token |-> selTok + 1, id |-> i, wasUnread |-> i \notin selReadIds] }
    /\ selLatest' = [id |-> i, outcome |-> "pending"]
    /\ selLast' = NoSelLast
    /\ UNCHANGED <<selectedMessage, selReadIds, selUnread>>
    /\ UNCHANGED otherThanSel

\* The full message arrives (lines 639-676, 680-682).
SelectOk(r) ==
    /\ r \in selInflight
    /\ selInflight' = selInflight \ {r}
    /\ selLast' = [stale |-> r.token # selTok, wrote |-> ~SelCancelled(r)]
    /\ selLatest' = IF r.token = selTok THEN [selLatest EXCEPT !.outcome = "ok"]
                    ELSE selLatest
    /\ IF SelCancelled(r)
       THEN UNCHANGED <<selectedMessage, selReadIds, selUnread, isLoadingMessage>>
       ELSE /\ selectedMessage' = r.id
            /\ selReadIds' = IF r.wasUnread THEN selReadIds \cup {r.id} ELSE selReadIds
            /\ selUnread' = IF r.wasUnread THEN BumpFolderUnread(selUnread, -1)
                            ELSE selUnread
            /\ isLoadingMessage' = FALSE
    /\ UNCHANGED selTok
    /\ UNCHANGED otherThanSel

\* The fetch fails (lines 677-682).
SelectFail(r) ==
    /\ r \in selInflight
    /\ selInflight' = selInflight \ {r}
    /\ selLast' = [stale |-> r.token # selTok, wrote |-> ~SelCancelled(r)]
    /\ selLatest' = IF r.token = selTok THEN [selLatest EXCEPT !.outcome = "failed"]
                    ELSE selLatest
    /\ IF SelCancelled(r)
       THEN UNCHANGED <<selectedMessage, isLoadingMessage>>
       ELSE /\ selectedMessage' = 0
            /\ isLoadingMessage' = FALSE
    /\ UNCHANGED <<selTok, selReadIds, selUnread>>
    /\ UNCHANGED otherThanSel

\* MailDesk.setup: nothing selected; the rows of the folder are unread.
SelInit ==
    /\ selTok = 0
    /\ isLoadingMessage = FALSE
    /\ selectedMessage = 0
    /\ selInflight = {}
    /\ selReadIds = {}
    /\ selUnread = MaxSelMsg
    /\ selLast = NoSelLast
    /\ selLatest = [id |-> 0, outcome |-> "none"]

SelNext ==
    \/ \E i \in SelRows : SelectMessage(i)
    \/ \E r \in selInflight : SelectOk(r)
    \/ \E r \in selInflight : SelectFail(r)

----------------------------------------------------------------------------
(* MailDesk flag operations, delete with undo, ContactPickerDialog.reload *)

\* Rows of the list the operations act on.
MaxOpsMsg == 2
\* RPCs and trash timers of the operations pending at the same time.
MaxOpsInflight == 2

\* markSelectedAsUnread is not started once the folder's counter reached this.
MaxOpsUnread == 3

OpsRows == 1..MaxOpsMsg

otherThanOps == <<listVars, selVars, npiVars, termsVars, feeVars, searchVars, otpVars, dgVars, rcpVars, drVars, cwVars, idleVars, cpVars, paVars, rsVars>>

OpsPending(op, id) == [op |-> op, id |-> id]

OpsStart(op, id) ==
    /\ Cardinality(opsInflight) < MaxOpsInflight
    /\ opsInflight' = opsInflight \cup { OpsPending(op, id) }

OpsFinish(r, op) ==
    /\ r \in opsInflight
    /\ r.op = op
    /\ opsInflight' = opsInflight \ {r}

\* No message is open.
NoSelected == [id |-> 0, is_read |-> FALSE]

\* selectMessage(msg) with its RPC answered and its token current (lines
\* 621-682): state.selectedMessage becomes the object the server returned,
\* whose is_read is the server's; the row is marked read and the folder's
\* counter lowered when the row was unread.
OpsSelectMessage(i, serverRead) ==
    LET wasUnread == i \notin opsRead
    IN  /\ i \in opsRows \ opsHidden
        /\ opsSelected' = [id |-> i, is_read |-> serverRead]
        /\ opsRead' = IF wasUnread THEN opsRead \cup {i} ELSE opsRead
        /\ opsUnread' = IF wasUnread THEN BumpFolderUnread(opsUnread, -1) ELSE opsUnread
        /\ UNCHANGED <<opsInflight, opsStarred, opsHidden, opsRows, opsNotified,
                       opsUnhandled, opsTrash>>
    /\ UNCHANGED otherThanOps

\* markSelectedAsRead(msg) up to its await (lines 1576-1589).
MarkSelectedAsRead(i) ==
    /\ i \in opsRows \ opsHidden
    /\ OpsStart("read", i)
    /\ UNCHANGED <<opsRead, opsStarred, opsUnread, opsHidden, opsRows, opsNotified,
                   opsUnhandled>>
    /\ UNCHANGED opsTrash
    /\ UNCHANGED opsSelected
    /\ UNCHANGED otherThanOps

\* set_flags answered (lines 1591-1612): delta is decremented for the row of
\* state.messages and again for state.selectedMessage.
MarkReadOk(r) ==
    LET hit == r.id \in opsRows /\ r.id \notin opsRead
        sel == opsSelected.id = r.id /\ ~opsSelected.is_read
        delta == (IF hit THEN -1 ELSE 0) + (IF sel THEN -1 ELSE 0)
    IN  /\ OpsFinish(r, "read")
        /\ opsRead' = IF hit THEN opsRead \cup {r.id} ELSE opsRead
        /\ opsSelected' = IF sel THEN [opsSelected EXCEPT !.is_read = TRUE]
                          ELSE opsSelected
        /\ opsUnread' = IF delta # 0 THEN BumpFolderUnread(opsUnread, delta)
                        ELSE opsUnread
        /\ UNCHANGED <<opsStarred, opsHidden, opsRows, opsNotified, opsUnhandled>>
        /\ UNCHANGED opsTrash
    /\ UNCHANGED otherThanOps

\* set_flags rejected: the await at line 1586 is in no try block, so the
\* promise markSelectedAsRead returns is rejected, and the context-menu
\* handler that called it (line 1541) does not await it.
MarkReadRejected(r) ==
    /\ OpsFinish(r, "read")
    /\ opsUnhandled' = opsUnhandled \cup {"read"}
    /\ UNCHANGED <<opsRead, opsStarred, opsUnread, opsHidden, opsRows, opsNotified>>
    /\ UNCHANGED opsTrash
    /\ UNCHANGED opsSelected
    /\ UNCHANGED otherThanOps

\* markSelectedAsUnread(msg) up to its await (lines 1616-1629).
MarkSelectedAsUnread(i) ==
    /\ i \in opsRows \ opsHidden
    /\ opsUnread < MaxOpsUnread
    /\ OpsStart("unread", i)
    /\ UNCHANGED <<opsRead, opsStarred, opsUnread, opsHidden, opsRows, opsNotified,
                   opsUnhandled>>
    /\ UNCHANGED opsTrash
    /\ UNCHANGED opsSelected
    /\ UNCHANGED otherThanOps

\* set_flags answered (lines 1631-1652): delta is incremented for the row of
\* state.messages and again for state.selectedMessage.
MarkUnreadOk(r) ==
    LET hit == r.id \in opsRows /\ r.id \in opsRead
        sel == opsSelected.id = r.id /\ opsSelected.is_read
        delta == (IF hit THEN 1 ELSE 0) + (IF sel THEN 1 ELSE 0)
    IN  /\ OpsFinish(r, "unread")
        /\ opsRead' = IF hit THEN opsRead \ {r.id} ELSE opsRead
        /\ opsSelected' = IF sel THEN [opsSelected EXCEPT !.is_read = FALSE]
                          ELSE opsSelected
        /\ opsUnread' = IF delta # 0 THEN BumpFolderUnread(opsUnread, delta)
                        ELSE opsUnread
        /\ UNCHANGED <<opsStarred, opsHidden, opsRows, opsNotified, opsUnhandled>>
        /\ UNCHANGED opsTrash
    /\ UNCHANGED otherThanOps

\* set_flags rejected: the await at line 1626 is in no try block.
MarkUnreadRejected(r) ==
    /\ OpsFinish(r, "unread")
    /\ opsUnhandled' = opsUnhandled \cup {"unread"}
    /\ UNCHANGED <<opsRead, opsStarred, opsUnread, opsHidden, opsRows, opsNotified>>
    /\ UNCHANGED opsTrash
    /\ UNCHANGED opsSelected
    /\ UNCHANGED otherThanOps

\* toggleStarForSelected(msg): the optimistic update and the RPC (lines 1801-1830).
ToggleStarForSelected(i) ==
    /\ i \in opsRows \ opsHidden
    /\ OpsStart("star", i)
    /\ opsStarred' = IF i \in opsStarred THEN opsStarred \ {i} ELSE opsStarred \cup {i}
    /\ UNCHANGED <<opsRead, opsUnread, opsHidden, opsRows, opsNotified, opsUnhandled>>
    /\ UNCHANGED opsTrash
    /\ UNCHANGED opsSelected
    /\ UNCHANGED otherThanOps

\* set_flags answered: nothing follows the await (lines 1831-1835).
ToggleStarOk(r) ==
    /\ OpsFinish(r, "star")
    /\ UNCHANGED <<opsRead, opsStarred, opsUnread, opsHidden, opsRows, opsNotified,
                   opsUnhandled>>
    /\ UNCHANGED opsTrash
    /\ UNCHANGED opsSelected
    /\ UNCHANGED otherThanOps

\* set_flags rejected: the await at line 1831 is in no try block.
ToggleStarRejected(r) ==
    /\ OpsFinish(r, "star")
    /\ opsUnhandled' = opsUnhandled \cup {"star"}
    /\ UNCHANGED <<opsRead, opsStarred, opsUnread, opsHidden, opsRows, opsNotified>>
    /\ UNCHANGED opsTrash
    /\ UNCHANGED opsSelected
    /\ UNCHANGED otherThanOps

\* No deletion of the row so far.
NoTrash == [phase |-> "none", rpcs |-> 0]

\* deleteSelected(msg): the row is hidden and the 5000 ms timer of
\* showUndoableTrashNotification is armed (lines 1688-1700, 1733, 1765).
DeleteSelected(i) ==
    /\ i \in opsRows \ opsHidden
    /\ OpsStart("trashTimer", i)
    /\ opsHidden' = opsHidden \cup {i}
    /\ opsTrash' = [opsTrash EXCEPT ![i] = [phase |-> "armed", rpcs |-> 0]]
    /\ UNCHANGED <<opsRead, opsStarred, opsUnread, opsRows, opsNotified, opsUnhandled>>
    /\ UNCHANGED opsSelected
    /\ UNCHANGED otherThanOps

\* The Undo button is clicked before the timer fires (lines 1727-1731):
\* undone is set and the row is shown again; the timer stays armed.
UndoTrash(r) ==
    /\ r \in opsInflight
    /\ r.op = "trashTimer"
    /\ OpsPending("trashUndone", r.id) \notin opsInflight
    /\ opsInflight' = (opsInflight \ {r}) \cup { OpsPending("trashUndone", r.id) }
    /\ opsHidden' = opsHidden \ {r.id}
    /\ opsTrash' = [opsTrash EXCEPT ![r.id].phase = "undone"]
    /\ UNCHANGED <<opsRead, opsStarred, opsUnread, opsRows, opsNotified, opsUnhandled>>
    /\ UNCHANGED opsSelected
    /\ UNCHANGED otherThanOps

\* The test of line 1734.
NotUndone(r) == r.op = "trashTimer"

\* The timer fires (lines 1733-1739, 1764): with undone unset
\* delete_messages is called, otherwise the toast is closed and no more.
TrashTimerFire(r) ==
    /\ r \in opsInflight
    /\ r.op \in {"trashTimer", "trashUndone"}
    /\ IF NotUndone(r)
       THEN /\ OpsPending("delete", r.id) \notin opsInflight
            /\ opsInflight' = (opsInflight \ {r}) \cup { OpsPending("delete", r.id) }
            /\ opsTrash' = [opsTrash EXCEPT
                   ![r.id] = [phase |-> IF @.phase = "armed" THEN "fired" ELSE @.phase,
                              rpcs |-> @.rpcs + 1]]
       ELSE /\ opsInflight' = opsInflight \ {r}
            /\ UNCHANGED opsTrash
    /\ UNCHANGED <<opsRead, opsStarred, opsUnread, opsHidden, opsRows, opsNotified,
                   opsUnhandled>>
    /\ UNCHANGED opsSelected
    /\ UNCHANGED otherThanOps

\* The Undo button is clicked after the timer fired, while delete_messages
\* is in flight and the toast still shows (closeToast runs after the await,
\* line 1764): the row is shown again, the call has been made.
UndoLate(r) ==
    /\ r \in opsInflight
    /\ r.op = "delete"
    /\ r.id \in opsHidden
    /\ opsHidden' = opsHidden \ {r.id}
    /\ UNCHANGED <<opsInflight, opsRead, opsStarred, opsUnread, opsRows, opsNotified,
                   opsUnhandled, opsTrash>>
    /\ UNCHANGED opsSelected
    /\ UNCHANGED otherThanOps

\* What follows the try block of the timer callback (lines 1744-1761).
TrashAfterRpc(r) ==
    LET hit == r.id \in opsRows /\ r.id \notin opsRead
    IN  /\ opsUnread' = IF hit THEN BumpFolderUnread(opsUnread, -1) ELSE opsUnread
        /\ opsRows' = opsRows \ {r.id}
        /\ opsHidden' = opsHidden \ {r.id}

\* delete_messages answered.
DeleteOk(r) ==
    /\ OpsFinish(r, "delete")
    /\ TrashAfterRpc(r)
    /\ UNCHANGED <<opsRead, opsStarred, opsNotified, opsUnhandled>>
    /\ UNCHANGED opsTrash
    /\ UNCHANGED opsSelected
    /\ UNCHANGED otherThanOps

\* delete_messages rejected: caught and logged (lines 1740-1742).
DeleteRejected(r) ==
    /\ OpsFinish(r, "delete")
    /\ TrashAfterRpc(r)
    /\ opsNotified' = opsNotified \cup {"delete"}
    /\ UNCHANGED <<opsRead, opsStarred, opsUnhandled>>
    /\ UNCHANGED opsTrash
    /\ UNCHANGED opsSelected
    /\ UNCHANGED otherThanOps

\* ContactPickerDialog.reload up to its first await (CHANGELOG.md lines
\* 108-122); onSearch, nextPage and prevPage call it.
ContactReload ==
    /\ OpsStart("contacts", 0)
    /\ UNCHANGED <<opsRead, opsStarred, opsUnread, opsHidden, opsRows, opsNotified,
                   opsUnhandled>>
    /\ UNCHANGED opsTrash
    /\ UNCHANGED opsSelected
    /\ UNCHANGED otherThanOps

\* The three calls of reload answered (lines 118-143).
ContactReloadOk(r) ==
    /\ OpsFinish(r, "contacts")
    /\ UNCHANGED <<opsRead, opsStarred, opsUnread, opsHidden, opsRows, opsNotified,
                   opsUnhandled>>
    /\ UNCHANGED opsTrash
    /\ UNCHANGED opsSelected
    /\ UNCHANGED otherThanOps

\* One of the calls of reload rejected: reload has no try block.
ContactReloadRejected(r) ==
    /\ OpsFinish(r, "contacts")
    /\ opsUnhandled' = opsUnhandled \cup {"contacts"}
    /\ UNCHANGED <<opsRead, opsStarred, opsUnread, opsHidden, opsRows, opsNotified>>
    /\ UNCHANGED opsTrash
    /\ UNCHANGED opsSelected
    /\ UNCHANGED otherThanOps

\* The list shows the rows of the folder, all unread and none starred.
OpsInit ==
    /\ opsInflight = {}
    /\ opsRead = {}
    /\ opsStarred = {}
    /\ opsUnread = MaxOpsMsg
    /\ opsHidden = {}
    /\ opsRows = OpsRows
    /\ opsNotified = {}
    /\ opsUnhandled = {}
    /\ opsSelected = NoSelected
    /\ opsTrash = [i \in OpsRows |-> NoTrash]

OpsNext ==
    \/ \E i \in OpsRows : MarkSelectedAsRead(i)
    \/ \E r \in opsInflight : MarkReadOk(r)
    \/ \E r \in opsInflight : MarkReadRejected(r)
    \/ \E i \in OpsRows : MarkSelectedAsUnread(i)
    \/ \E r \in opsInflight : MarkUnreadOk(r)
    \/ \E r \in opsInflight : MarkUnreadRejected(r)
    \/ \E i \in OpsRows : ToggleStarForSelected(i)
    \/ \E r \in opsInflight : ToggleStarOk(r)
    \/ \E r \in opsInflight : ToggleStarRejected(r)
    \/ \E i \in OpsRows : DeleteSelected(i)
    \/ \E r \in opsInflight : UndoTrash(r)
    \/ \E r \in opsInflight : TrashTimerFire(r)
    \/ \E r \in opsInflight : UndoLate(r)
    \/ \E r \in opsInflight : DeleteOk(r)
    \/ \E r \in opsInflight : DeleteRejected(r)
    \/ ContactReload
    \/ \E r \in opsInflight : ContactReloadOk(r)
    \/ \E r \in opsInflight : ContactReloadRejected(r)

\* The flag operations with a message open in the reading pane.
FlagsNext ==
    \/ \E i \in OpsRows, serverRead \in BOOLEAN : OpsSelectMessage(i, serverRead)
    \/ \E i \in OpsRows : MarkSelectedAsRead(i)
    \/ \E r \in opsInflight : MarkReadOk(r)
    \/ \E r \in opsInflight : MarkReadRejected(r)
    \/ \E i \in OpsRows : MarkSelectedAsUnread(i)
    \/ \E r \in opsInflight : MarkUnreadOk(r)
    \/ \E r \in opsInflight : MarkUnreadRejected(r)

----------------------------------------------------------------------------
(* NPI signup validation script (unnamed/part_009) *)

\* Fetches to /web/signup/validate_npi in flight at the same time.
MaxNpiInflight == 2

\* What the NPI input can hold after the first input listener stripped the
\* non-digits and cut the value to 10 characters: nothing, fewer than 10
\* digits, or one of two 10-digit numbers.
TenDigitNpis == {"1234567893", "1992999999"}
NpiValues == {"", "12345"} \cup TenDigitNpis

\* What the name input can hold (trimmed).
NameValues == {"", "Ann Lee", "Bob Ray"}

\* The registry behind /web/signup/validate_npi: the pairs it reports valid.
NpiRegistry == { <<"1234567893", "Ann Lee">> }

otherThanNpi == <<listVars, selVars, opsVars, termsVars, feeVars, searchVars, otpVars, dgVars, rcpVars, drVars, cwVars, idleVars, cpVars, paVars, rsVars>>

\* validateNPI() (lines 196-238) called with the form holding npi and name
\* and the flag holding valid.  It sends the request only for a 10-digit
\* NPI and a non-empty name, and then leaves the flag as it is.
ValidateNPI(npi, name, valid) ==
    IF npi \in TenDigitNpis /\ name # ""
    THEN /\ Cardinality(npiInflight) < MaxNpiInflight
         /\ npiFeedback' = "info"
         /\ npiDisabled' = TRUE
         /\ npiInflight' = npiInflight \cup { [npi |-> npi, name |-> name] }
         /\ isValidNPI' = valid
    ELSE /\ npiFeedback' = "danger"
         /\ isValidNPI' = FALSE
         /\ UNCHANGED <<npiDisabled, npiInflight>>

\* The user edits the NPI field: the two input listeners (lines 110-120,
\* 127-140).  A disabled input takes no edits.
NpiInput(v) ==
    /\ ~npiDisabled
    /\ v \in NpiValues
    /\ v # npiValue
    /\ npiValue' = v
    /\ isValidNPI' = FALSE
    /\ validationTimeout' = (v \in TenDigitNpis)
    /\ npiFeedback' = IF v \notin TenDigitNpis /\ v # "" THEN "danger" ELSE "hidden"
    /\ submitResult' = "none"
    /\ UNCHANGED <<nameValue, npiDisabled, npiInflight, npiReported>>
    /\ UNCHANGED otherThanNpi

\* The NPI field loses the focus (lines 123-125).
NpiBlur ==
    /\ ~npiDisabled
    /\ ValidateNPI(npiValue, nameValue, isValidNPI)
    /\ submitResult' = "none"
    /\ UNCHANGED <<npiValue, nameValue, validationTimeout, npiReported>>
    /\ UNCHANGED otherThanNpi

\* The 500 ms timer fires (lines 135-137).
NpiTimerFire ==
    /\ validationTimeout
    /\ validationTimeout' = FALSE
    /\ ValidateNPI(npiValue, nameValue, isValidNPI)
    /\ submitResult' = "none"
    /\ UNCHANGED <<npiValue, nameValue, npiReported>>
    /\ UNCHANGED otherThanNpi

\* The user edits the name (lines 335-346).
NameInput(n) ==
    /\ n \in NameValues
    /\ n # nameValue
    /\ nameValue' = n
    /\ IF isValidNPI /\ npiValue \in TenDigitNpis
       THEN ValidateNPI(npiValue, n, FALSE)
       ELSE UNCHANGED <<isValidNPI, npiFeedback, npiDisabled, npiInflight>>
    /\ submitResult' = "none"
    /\ UNCHANGED <<npiValue, validationTimeout, npiReported>>
    /\ UNCHANGED otherThanNpi

\* The endpoint answers (lines 251-271).
NpiAnswer(r) ==
    LET valid == <<r.npi, r.name>> \in NpiRegistry
    IN  /\ r \in npiInflight
        /\ npiInflight' = npiInflight \ {r}
        /\ npiDisabled' = FALSE
        /\ isValidNPI' = valid
        /\ npiFeedback' = IF valid THEN "success" ELSE "danger"
        /\ npiReported' = IF valid THEN npiReported \cup { <<r.npi, r.name>> }
                          ELSE npiReported
        /\ submitResult' = "none"
        /\ UNCHANGED <<npiValue, nameValue, validationTimeout>>
        /\ UNCHANGED otherThanNpi

\* The fetch fails (lines 272-277).
NpiError(r) ==
    /\ r \in npiInflight
    /\ npiInflight' = npiInflight \ {r}
    /\ npiDisabled' = FALSE
    /\ isValidNPI' = FALSE
    /\ npiFeedback' = "danger"
    /\ submitResult' = "none"
    /\ UNCHANGED <<npiValue, nameValue, validationTimeout, npiReported>>
    /\ UNCHANGED otherThanNpi

\* The form's submit event: validateBeforeSubmit (lines 143-182).
ValidateBeforeSubmit ==
    /\ submitResult' = IF npiValue = "" \/ nameValue = "" \/ ~isValidNPI
                       THEN "prevented" ELSE "allowed"
    /\ npiFeedback' = IF npiValue = "" \/ (nameValue # "" /\ ~isValidNPI)
                      THEN "danger" ELSE npiFeedback
    /\ UNCHANGED <<npiValue, nameValue, isValidNPI, npiDisabled, validationTimeout,
                   npiInflight, npiReported>>
    /\ UNCHANGED otherThanNpi

\* DOMContentLoaded (lines 91-108): empty form, nothing validated.
NpiInit ==
    /\ npiValue = ""
    /\ nameValue = ""
    /\ isValidNPI = FALSE
    /\ npiDisabled = FALSE
    /\ validationTimeout = FALSE
    /\ npiInflight = {}
    /\ npiFeedback = "hidden"
    /\ npiReported = {}
    /\ submitResult = "none"

NpiNext ==
    \/ \E v \in NpiValues : NpiInput(v)
    \/ NpiBlur
    \/ NpiTimerFire
    \/ \E n \in NameValues : NameInput(n)
    \/ \E r \in npiInflight : NpiAnswer(r)
    \/ \E r \in npiInflight : NpiError(r)
    \/ ValidateBeforeSubmit

----------------------------------------------------------------------------
(* SignupSignatureForm.onClickSubmit (signup_signature_form.js) *)

\* Accept requests sent in one visit of the page.
MaxTermsSent == 3

otherThanTerms == <<listVars, selVars, opsVars, npiVars, feeVars, searchVars, otpVars, dgVars, rcpVars, drVars, cwVars, idleVars, cpVars, paVars, rsVars>>

\* The page script that watches the Terms window defines
\* window.signupTermsScrolled; it is not part of the sources at hand and is
\* modelled from README_TERMS.md: it reports whether the Terms window is
\* scrolled to the bottom.
TermsHookDefined ==
    /\ ~termsHook
    /\ termsHook' = TRUE
    /\ UNCHANGED <<termsScrolled, termsEverScrolled, termsError, termsSuccess,
                   termsInflight, termsSent, termsRedirect>>
    /\ UNCHANGED otherThanTerms

\* The user scrolls the Terms window to its bottom.
TermsScrollToBottom ==
    /\ ~termsScrolled
    /\ termsScrolled' = TRUE
    /\ termsEverScrolled' = TRUE
    /\ UNCHANGED <<termsHook, termsError, termsSuccess, termsInflight, termsSent,
                   termsRedirect>>
    /\ UNCHANGED otherThanTerms

\* The user scrolls back up.
TermsScrollAway ==
    /\ termsScrolled
    /\ termsScrolled' = FALSE
    /\ UNCHANGED <<termsHook, termsEverScrolled, termsError, termsSuccess,
                   termsInflight, termsSent, termsRedirect>>
    /\ UNCHANGED otherThanTerms

\* Line 12: window.signupTermsScrolled ? window.signupTermsScrolled() : false
\* ScrolledToBottomAlways is the variant without the test.
ScrolledToBottomAlways == TRUE
ScrolledToBottom == termsHook /\ termsScrolled

\* onClickSubmit up to its await (lines 10-35).
OnClickSubmit ==
    /\ ~termsRedirect
    /\ IF ~ScrolledToBottom
       THEN /\ termsError' = "scroll"
            /\ UNCHANGED <<termsInflight, termsSent>>
       ELSE /\ termsSent < MaxTermsSent
            /\ termsInflight' = termsInflight \cup
                   { [n |-> termsSent + 1, scrolled_to_bottom |-> TRUE] }
            /\ termsSent' = termsSent + 1
            /\ UNCHANGED termsError
    /\ UNCHANGED <<termsHook, termsScrolled, termsEverScrolled, termsSuccess, termsRedirect>>
    /\ UNCHANGED otherThanTerms

\* The accept URL answers (lines 37-59): force_refresh, an error, or success.
TermsAnswer(r, kind) ==
    /\ r \in termsInflight
    /\ kind \in {"refresh", "error", "success"}
    /\ termsInflight' = termsInflight \ {r}
    /\ termsRedirect' = (termsRedirect \/ kind = "refresh")
    /\ termsError' = IF kind = "refresh" THEN termsError
                     ELSE IF kind = "error" THEN "server" ELSE "none"
    /\ termsSuccess' = IF kind = "refresh" THEN termsSuccess ELSE (kind = "success")
    /\ UNCHANGED <<termsHook, termsScrolled, termsEverScrolled, termsSent>>
    /\ UNCHANGED otherThanTerms

\* The RPC is rejected: nothing follows the await at line 35.
TermsRpcRejected(r) ==
    /\ r \in termsInflight
    /\ termsInflight' = termsInflight \ {r}
    /\ UNCHANGED <<termsHook, termsScrolled, termsEverScrolled, termsError, termsSuccess,
                   termsSent, termsRedirect>>
    /\ UNCHANGED otherThanTerms

\* The form is mounted: the Terms window is at its top, the hook not yet defined.
TermsInit ==
    /\ termsHook = FALSE
    /\ termsScrolled = FALSE
    /\ termsEverScrolled = FALSE
    /\ termsError = "none"
    /\ termsSuccess = FALSE
    /\ termsInflight = {}
    /\ termsSent = 0
    /\ termsRedirect = FALSE

TermsNext ==
    \/ TermsHookDefined
    \/ TermsScrollToBottom
    \/ TermsScrollAway
    \/ OnClickSubmit
    \/ \E r \in termsInflight : \E kind \in {"refresh", "error", "success"} :
           TermsAnswer(r, kind)
    \/ \E r \in termsInflight : TermsRpcRejected(r)

----------------------------------------------------------------------------
(* PaymentFee widget (payment_fee.js) *)

\* Payment options of the checkout page: radio inputs 1..MaxFeeOption.
MaxFeeOption == 3
\* update_fee requests sent in one visit of the page.
MaxFeeSent == 4
\* console.error calls of the widget in one visit of the page.
MaxFeeLogged == 2

FeeOptions == 1..MaxFeeOption

\* input.dataset.providerId of an option: the last option carries none (0).
ProviderId(o) == IF o = MaxFeeOption THEN 0 ELSE o

otherThanFee == <<listVars, selVars, opsVars, npiVars, termsVars, searchVars, otpVars, dgVars, rcpVars, drVars, cwVars, idleVars, cpVars, paVars, rsVars>>

\* _updatePaymentFee(providerId) up to its await (lines 47-58).
\* UpdatePaymentFeeUnguarded is the variant without the test of lines 49-51.
UpdatePaymentFeeUnguarded(providerId) ==
    /\ feeSentCount < MaxFeeSent
    /\ updatingFee' = TRUE
    /\ feeInflight' = feeInflight \cup {providerId}
    /\ feeLastSent' = providerId
    /\ feeSentCount' = feeSentCount + 1

UpdatePaymentFee(providerId) ==
    IF updatingFee
    THEN UNCHANGED <<updatingFee, feeInflight, feeLastSent, feeSentCount>>
    ELSE /\ feeSentCount < MaxFeeSent
         /\ updatingFee' = TRUE
         /\ feeInflight' = feeInflight \cup {providerId}
         /\ feeLastSent' = providerId
         /\ feeSentCount' = feeSentCount + 1

\* The change event of a radio input that became checked (lines 30-41).
OnPaymentOptionChange(o) ==
    /\ o \in FeeOptions
    /\ o # feeSelected
    /\ feeSelected' = o
    /\ IF ProviderId(o) # 0
       THEN UpdatePaymentFee(ProviderId(o))
       ELSE UNCHANGED <<updatingFee, feeInflight, feeLastSent, feeSentCount>>
    /\ UNCHANGED <<feeLogged, feeUpdated, feeReloaded>>
    /\ UNCHANGED otherThanFee

\* update_fee answers without error (lines 66-68): the flag is reset and
\* nothing else is done, the page is not reloaded.
UpdateFeeOk(p) ==
    /\ p \in feeInflight
    /\ feeInflight' = feeInflight \ {p}
    /\ updatingFee' = FALSE
    /\ feeUpdated' = TRUE
    /\ UNCHANGED <<feeSelected, feeLastSent, feeSentCount, feeLogged, feeReloaded>>
    /\ UNCHANGED otherThanFee

\* update_fee answers with result.error, or the RPC throws (lines 60-64, 69-72).
UpdateFeeError(p) ==
    /\ p \in feeInflight
    /\ feeLogged < MaxFeeLogged
    /\ feeInflight' = feeInflight \ {p}
    /\ updatingFee' = FALSE
    /\ feeLogged' = feeLogged + 1
    /\ feeUpdated' = FALSE
    /\ UNCHANGED <<feeSelected, feeLastSent, feeSentCount, feeReloaded>>
    /\ UNCHANGED otherThanFee

\* start() (lines 18-25): no request on page load.
FeeInit ==
    /\ feeSelected = 0
    /\ updatingFee = FALSE
    /\ feeInflight = {}
    /\ feeLastSent = 0
    /\ feeSentCount = 0
    /\ feeLogged = 0
    /\ feeUpdated = FALSE
    /\ feeReloaded = FALSE

FeeNext ==
    \/ \E o \in FeeOptions : OnPaymentOptionChange(o)
    \/ \E p \in feeInflight : UpdateFeeOk(p)
    \/ \E p \in feeInflight : UpdateFeeError(p)

----------------------------------------------------------------------------
(* MailDesk search box: onSearchInput and the debounced refreshMessages *)

\* The delay of onDelayedSearch, 800 ms in the code (line 123), in ticks of
\* 200 ms.
DebounceTicks == 4
\* refreshMessages calls made by the search box in one visit.
MaxSearchCalls == 3

\* What the search input can hold.
SearchQueries == {"", "i", "in", "inv"}

otherThanSearch == <<listVars, selVars, opsVars, npiVars, termsVars, feeVars, otpVars, dgVars, rcpVars, drVars, cwVars, idleVars, cpVars, paVars, rsVars>>

\* Which burst a keystroke belongs to: it continues the current burst while
\* the timer of the previous keystroke is still running.
BurstCallsAtKey == IF searchTimer >= 0 THEN searchBurstCalls ELSE 0

\* OnSearchInputUndelayed is the variant that calls refreshMessages itself.
OnSearchInputUndelayed(q) ==
    /\ q \in SearchQueries
    /\ q # searchQuery
    /\ searchTimer # 0
    /\ searchCalls < MaxSearchCalls
    /\ searchQuery' = q
    /\ searchSinceKey' = 0
    /\ searchBurstCalls' = BurstCallsAtKey + 1
    /\ searchCalls' = searchCalls + 1
    /\ searchCallQuery' = q
    /\ searchCallGap' = 0
    /\ UNCHANGED searchTimer
    /\ UNCHANGED otherThanSearch

\* onSearchInput (lines 983-986): searchQuery is set and onDelayedSearch is
\* called, which (re)starts the timer of the debounce.  A keystroke at the
\* very instant the timer is due is taken after the timer's callback.
OnSearchInput(q) ==
    /\ q \in SearchQueries
    /\ q # searchQuery
    /\ searchTimer # 0
    /\ searchCalls < MaxSearchCalls
    /\ searchQuery' = q
    /\ searchTimer' = DebounceTicks
    /\ searchSinceKey' = 0
    /\ searchBurstCalls' = BurstCallsAtKey
    /\ UNCHANGED <<searchCalls, searchCallQuery, searchCallGap>>
    /\ UNCHANGED otherThanSearch

\* 200 ms pass.  Time does not pass a timer that is due.
SearchTick ==
    /\ searchTimer # 0
    /\ searchTimer > 0 \/ searchSinceKey < DebounceTicks + 1
    /\ searchTimer' = IF searchTimer > 0 THEN searchTimer - 1 ELSE searchTimer
    /\ searchSinceKey' = IF searchSinceKey < DebounceTicks + 1 THEN searchSinceKey + 1
                         ELSE searchSinceKey
    /\ UNCHANGED <<searchQuery, searchBurstCalls, searchCalls, searchCallQuery,
                   searchCallGap>>
    /\ UNCHANGED otherThanSearch

\* The timer of the debounce is due: its callback calls refreshMessages
\* (line 123), which reads state.searchQuery for its request (line 496).
DelayedSearchFire ==
    /\ searchTimer = 0
    /\ searchTimer' = -1
    /\ searchBurstCalls' = searchBurstCalls + 1
    /\ searchCalls' = searchCalls + 1
    /\ searchCallQuery' = searchQuery
    /\ searchCallGap' = searchSinceKey
    /\ UNCHANGED <<searchQuery, searchSinceKey>>
    /\ UNCHANGED otherThanSearch

\* MailDesk.setup: empty query (line 105), the debounce idle.
SearchInit ==
    /\ searchQuery = ""
    /\ searchTimer = -1
    /\ searchSinceKey = 0
    /\ searchBurstCalls = -1
    /\ searchCalls = 0
    /\ searchCallQuery = ""
    /\ searchCallGap = 0

SearchNext ==
    \/ \E q \in SearchQueries : OnSearchInput(q)
    \/ SearchTick
    \/ DelayedSearchFire

----------------------------------------------------------------------------
(* Digit-only input fields: the filters of the OTP and NPI inputs *)

\* Characters a user can type or paste: two digits and two non-digits.
Digits == {"0", "9"}
Chars == Digits \cup {"x", "-"}

\* value.replace(/[^0-9]/g, '') (part_000 line 21) and
\* value.replace(/\D/g, '') (part_009 line 111).
RECURSIVE DigitsOnly(_)
DigitsOnly(text) ==
    IF text = <<>> THEN <<>>
    ELSE IF Head(text) \in Digits THEN <<Head(text)>> \o DigitsOnly(Tail(text))
         ELSE DigitsOnly(Tail(text))

\* value.substring(0, limit)
Truncate(text, limit) == IF Len(text) > limit THEN SubSeq(text, 1, limit) ELSE text

\* The OTP field holds 6 digits at most (part_000 lines 24-26, 45).
OtpLimit == 6

\* otpInput's first input listener (part_000 lines 19-27) applied to the
\* text the field holds after the keystroke.  OtpUnfiltered is the variant
\* that leaves the text as typed.
OtpUnfiltered(text) == text
OtpOnInput(text) == Truncate(DigitsOnly(text), OtpLimit)

\* otpInput's paste listener (part_000 lines 42-46): the field takes the
\* filtered clipboard text in place of what it held.
OtpOnPaste(pasted) == Truncate(DigitsOnly(pasted), OtpLimit)

----------------------------------------------------------------------------
(* OTP verification form: auto-submit *)

\* The delay of the auto-submit, 300 ms in the code (part_000 lines 39, 54),
\* in ticks of 100 ms.
OtpDelayTicks == 3
\* Auto-submit timers pending at the same time.
MaxOtpTimers == 2

\* Clipboard texts: two digits; six digits among other characters; seven digits.
OtpPastes ==
    { <<"0", "9">>,
      <<"0", "9", "-", "0", "9", "x", "0", "9">>,
      <<"9", "9", "9", "0", "0", "0", "9">> }

otherThanOtp == <<listVars, selVars, opsVars, npiVars, termsVars, feeVars, searchVars, dgVars, rcpVars, drVars, cwVars, idleVars, cpVars, paVars, rsVars>>

\* The second input listener (lines 30-39) and the tail of the paste
\* listener (lines 48-54): a timer is armed when the field holds 6
\* characters.  OtpArmNever is the variant that arms none.
OtpArmNever(value) == otpTimers
OtpArm(value) ==
    IF Len(value) = OtpLimit THEN Append(otpTimers, OtpDelayTicks) ELSE otpTimers

\* History: an event that leaves exactly 6 digits in the field is owed a submit.
OtpOwe(value) ==
    IF Len(value) = 6 /\ \A i \in DOMAIN value : value[i] \in Digits
    THEN Append(otpDue, 0) ELSE otpDue

\* An input event: the user typed c at the end of the field.
OtpType(c) ==
    LET value == OtpOnInput(Append(otpValue, c))
    IN  /\ ~otpSubmitted
        /\ c \in Chars
        /\ Len(otpTimers) < MaxOtpTimers
        /\ otpValue' = value
        /\ otpTimers' = OtpArm(value)
        /\ otpDue' = OtpOwe(value)
        /\ UNCHANGED <<otpSubmitted, otpSubmitAge>>
        /\ UNCHANGED otherThanOtp

\* An input event: the user deleted the last character.
OtpBackspace ==
    LET value == OtpOnInput(SubSeq(otpValue, 1, Len(otpValue) - 1))
    IN  /\ ~otpSubmitted
        /\ otpValue # <<>>
        /\ otpValue' = value
        /\ otpTimers' = OtpArm(value)
        /\ otpDue' = OtpOwe(value)
        /\ UNCHANGED <<otpSubmitted, otpSubmitAge>>
        /\ UNCHANGED otherThanOtp

\* A paste event (lines 42-55).
OtpPaste(pasted) ==
    LET value == OtpOnPaste(pasted)
    IN  /\ ~otpSubmitted
        /\ pasted \in OtpPastes
        /\ Len(otpTimers) < MaxOtpTimers
        /\ otpValue' = value
        /\ otpTimers' = OtpArm(value)
        /\ otpDue' = OtpOwe(value)
        /\ UNCHANGED <<otpSubmitted, otpSubmitAge>>
        /\ UNCHANGED otherThanOtp

\* 100 ms pass.  Time does not pass a timer that is due; what is owed ages
\* up to one tick past the delay.
OtpTick ==
    /\ ~otpSubmitted
    /\ otpTimers # <<>> \/ otpDue # <<>>
    /\ \A i \in DOMAIN otpTimers : otpTimers[i] > 0
    /\ \A i \in DOMAIN otpDue : otpDue[i] <= OtpDelayTicks
    /\ otpTimers' = [i \in DOMAIN otpTimers |-> otpTimers[i] - 1]
    /\ otpDue' = [i \in DOMAIN otpDue |-> otpDue[i] + 1]
    /\ UNCHANGED <<otpValue, otpSubmitted, otpSubmitAge>>
    /\ UNCHANGED otherThanOtp

\* A timer is due: its callback disables the button and calls
\* otpForm.submit() (lines 33-37, 49-53); the page is left.
OtpTimerFire ==
    /\ ~otpSubmitted
    /\ otpTimers # <<>>
    /\ Head(otpTimers) = 0
    /\ otpTimers' = Tail(otpTimers)
    /\ otpSubmitted' = TRUE
    /\ otpSubmitAge' = IF otpDue # <<>> THEN Head(otpDue) ELSE -1
    /\ otpDue' = IF otpDue # <<>> THEN Tail(otpDue) ELSE otpDue
    /\ UNCHANGED <<otpValue>>
    /\ UNCHANGED otherThanOtp

\* DOMContentLoaded (lines 6-16): empty field, no timer.
OtpInit ==
    /\ otpValue = <<>>
    /\ otpTimers = <<>>
    /\ otpDue = <<>>
    /\ otpSubmitted = FALSE
    /\ otpSubmitAge = -1

OtpNext ==
    \/ \E c \in Chars : OtpType(c)
    \/ OtpBackspace
    \/ \E pasted \in OtpPastes : OtpPaste(pasted)
    \/ OtpTick
    \/ OtpTimerFire

----------------------------------------------------------------------------
(* Digit-only fields: OTP code (limit 6) and NPI number (limit 10) *)

\* The NPI field holds 10 digits at most (part_009 lines 112-114).
NpiLimit == 10

\* npiInput's first input listener (part_009 lines 110-120) applied to the
\* text the field holds after the keystroke.
NpiOnInput(text) == Truncate(DigitsOnly(text), NpiLimit)

DgLimit == IF dgField = "otp" THEN OtpLimit ELSE NpiLimit

otherThanDg == <<listVars, selVars, opsVars, npiVars, termsVars, feeVars, searchVars, otpVars, rcpVars, drVars, cwVars, idleVars, cpVars, paVars, rsVars>>

\* The text of a field after the browser has inserted ins at position pos.
InsertAt(text, pos, ins) == SubSeq(text, 1, pos) \o ins \o SubSeq(text, pos + 1, Len(text))

\* The text of a field after the browser has deleted the character at pos.
DeleteAt(text, pos) == SubSeq(text, 1, pos - 1) \o SubSeq(text, pos + 1, Len(text))

\* The input listener of the field at hand.
DgOnInput(text) == IF dgField = "otp" THEN OtpOnInput(text) ELSE NpiOnInput(text)

\* An input event after a keystroke that inserted c at pos.
DgType(pos, c) ==
    LET raw == InsertAt(dgValue, pos, <<c>>)
    IN  /\ pos \in 0..Len(dgValue)
        /\ c \in Chars
        /\ dgRaw' = raw
        /\ dgValue' = DgOnInput(raw)
        /\ dgEvent' = "input"
        /\ UNCHANGED dgField
        /\ UNCHANGED otherThanDg

\* An input event after a keystroke that deleted the character at pos.
DgDelete(pos) ==
    LET raw == DeleteAt(dgValue, pos)
    IN  /\ pos \in 1..Len(dgValue)
        /\ dgRaw' = raw
        /\ dgValue' = DgOnInput(raw)
        /\ dgEvent' = "input"
        /\ UNCHANGED dgField
        /\ UNCHANGED otherThanDg

\* A paste event on the OTP field: its listener prevents the browser's
\* insertion and sets the value itself (part_000 lines 42-46).
DgPasteOtp(pasted) ==
    /\ dgField = "otp"
    /\ pasted \in OtpPastes
    /\ dgRaw' = pasted
    /\ dgValue' = OtpOnPaste(pasted)
    /\ dgEvent' = "paste"
    /\ UNCHANGED dgField
    /\ UNCHANGED otherThanDg

\* A paste on the NPI field: no paste listener, the browser inserts the
\* clipboard text at the caret and the input event follows.
DgPasteNpi(pos, pasted) ==
    LET raw == InsertAt(dgValue, pos, pasted)
    IN  /\ dgField = "npi"
        /\ pos \in {0, Len(dgValue)}
        /\ pasted \in OtpPastes
        /\ dgRaw' = raw
        /\ dgValue' = NpiOnInput(raw)
        /\ dgEvent' = "input"
        /\ UNCHANGED dgField
        /\ UNCHANGED otherThanDg

\* The other page is opened: its field is empty.
DgOpen(field) ==
    /\ field \in {"otp", "npi"}
    /\ field # dgField
    /\ dgField' = field
    /\ dgValue' = <<>>
    /\ dgEvent' = "none"
    /\ dgRaw' = <<>>
    /\ UNCHANGED otherThanDg

\* The OTP page, its field empty.
DgInit ==
    /\ dgField = "otp"
    /\ dgValue = <<>>
    /\ dgEvent = "none"
    /\ dgRaw = <<>>

DgNext ==
    \/ \E pos \in 0..NpiLimit, c \in Chars : DgType(pos, c)
    \/ \E pos \in 1..NpiLimit : DgDelete(pos)
    \/ \E pasted \in OtpPastes : DgPasteOtp(pasted)
    \/ \E pos \in 0..NpiLimit, pasted \in OtpPastes : DgPasteNpi(pos, pasted)
    \/ \E field \in {"otp", "npi"} : DgOpen(field)

----------------------------------------------------------------------------
(* MailDesk composer: recipient lists *)

\* Entry objects created in one session.
MaxRcpRef == 3

RcpFields == {"To", "Cc", "Bcc"}
\* Emails of the res.partner records the suggestion search can return.
RcpPartners == {"ann@x.io", "bob@x.io"}
\* Texts typed into a recipient input.
RcpTexts == {"", "x.io", "ann@x.io", "bob@x.io"}

otherThanRcp == <<listVars, selVars, opsVars, npiVars, termsVars, feeVars, searchVars, otpVars, dgVars, drVars, cwVars, idleVars, cpVars, paVars, rsVars>>

\* val && val.includes("@") (email_input_field.esm.js lines 62, 74).
RcpIsAddress(val) == val \in {"ann@x.io", "bob@x.io"}

\* The partners whose email matches ["email", "ilike", text] (lines 35-44).
RcpIlike(text) ==
    IF text = "x.io" THEN RcpPartners
    ELSE IF text \in RcpPartners THEN {text} ELSE {}

\* Array.prototype.includes on a list of objects: identity of the object.
RcpIncludes(list, entry) == \E i \in DOMAIN list : list[i] = entry

\* ComposeMail.addEmail (part_003 lines 202-210).
AddEmail(lists, entry, field) ==
    IF ~RcpIncludes(lists[field], entry)
    THEN [lists EXCEPT ![field] = Append(@, entry)]
    ELSE lists

\* An entry object made by a literal or by the RPC layer: a new identity.
RcpEntry(email) == [email |-> email, ref |-> rcpNextRef]

RcpClear(field) ==
    /\ rcpInput' = [rcpInput EXCEPT ![field] = ""]
    /\ rcpSuggestions' = [rcpSuggestions EXCEPT ![field] = {}]

\* onInput (lines 32-57): the text is kept and the suggestions are the
\* matching partners not selected in any list.
RcpOnInput(field, text) ==
    LET selected == UNION { { rcpLists[f][i].email : i \in DOMAIN rcpLists[f] } : f \in RcpFields }
    IN  /\ field \in RcpFields
        /\ text \in RcpTexts
        /\ text # rcpInput[field]
        /\ rcpInput' = [rcpInput EXCEPT ![field] = text]
        /\ rcpSuggestions' = [rcpSuggestions EXCEPT ![field] =
               IF text # "" THEN RcpIlike(text) \ selected ELSE @]
        /\ UNCHANGED <<rcpLists, rcpNextRef>>
        /\ UNCHANGED otherThanRcp

\* onKeydown with Enter or Tab (lines 71-81).
RcpOnKeydown(field) ==
    /\ field \in RcpFields
    /\ RcpIsAddress(rcpInput[field])
    /\ rcpNextRef <= MaxRcpRef
    /\ rcpLists' = AddEmail(rcpLists, RcpEntry(rcpInput[field]), field)
    /\ rcpNextRef' = rcpNextRef + 1
    /\ RcpClear(field)
    /\ UNCHANGED otherThanRcp

\* onBlur (lines 59-69): the callback run 200 ms after the field is left.
RcpOnBlur(field) ==
    /\ field \in RcpFields
    /\ rcpInput[field] # "" \/ rcpSuggestions[field] # {}
    /\ IF RcpIsAddress(rcpInput[field])
       THEN /\ rcpNextRef <= MaxRcpRef
            /\ rcpLists' = AddEmail(rcpLists, RcpEntry(rcpInput[field]), field)
            /\ rcpNextRef' = rcpNextRef + 1
       ELSE UNCHANGED <<rcpLists, rcpNextRef>>
    /\ RcpClear(field)
    /\ UNCHANGED otherThanRcp

\* addEmailHandler (lines 83-91): a suggestion is picked.
AddEmailHandler(field, email) ==
    /\ field \in RcpFields
    /\ email \in rcpSuggestions[field]
    /\ rcpNextRef <= MaxRcpRef
    /\ rcpLists' = AddEmail(rcpLists, RcpEntry(email), field)
    /\ rcpNextRef' = rcpNextRef + 1
    /\ RcpClear(field)
    /\ UNCHANGED otherThanRcp

\* ComposeMail.remove (part_003 lines 388-394).
RcpRemove(field, email) ==
    /\ field \in RcpFields
    /\ \E i \in DOMAIN rcpLists[field] : rcpLists[field][i].email = email
    /\ LET list == rcpLists[field]
           index == CHOOSE i \in DOMAIN list :
                        /\ list[i].email = email
                        /\ \A j \in 1..(i - 1) : list[j].email # email
       IN  rcpLists' = [rcpLists EXCEPT ![field] =
               SubSeq(list, 1, index - 1) \o SubSeq(list, index + 1, Len(list))]
    /\ UNCHANGED <<rcpNextRef, rcpInput, rcpSuggestions>>
    /\ UNCHANGED otherThanRcp

\* A new message: no recipients (part_003 setup).
RcpInit ==
    /\ rcpLists = [f \in RcpFields |-> <<>>]
    /\ rcpNextRef = 1
    /\ rcpInput = [f \in RcpFields |-> ""]
    /\ rcpSuggestions = [f \in RcpFields |-> {}]

RcpNext ==
    \/ \E field \in RcpFields, text \in RcpTexts : RcpOnInput(field, text)
    \/ \E field \in RcpFields : RcpOnKeydown(field)
    \/ \E field \in RcpFields : RcpOnBlur(field)
    \/ \E field \in RcpFields, email \in RcpPartners : AddEmailHandler(field, email)
    \/ \E field \in RcpFields, email \in RcpPartners : RcpRemove(field, email)

----------------------------------------------------------------------------
(* MailDesk composer: draft autosave, manual save, sendMail *)

\* save_draft calls made in one session.
MaxDraftCalls == 4
\* save_draft calls in flight at once.
MaxDraftInflight == 2

\* Composer contents (body, subject, recipients, attachments): empty, and
\* two non-empty ones that have a recipient.
DraftContents == {"", "hello", "hello ann"}
\* The id the server gives a new draft.
NewDraftId == 7

NoState == [draft_id |-> -1, content |-> ""]
NoTick == [called |-> FALSE, due |-> FALSE, ticked |-> FALSE]
NoSent == [issued |-> FALSE, saved |-> FALSE, draft_id |-> 0, stored |-> 0]

otherThanDraft == <<listVars, selVars, opsVars, npiVars, termsVars, feeVars, searchVars, otpVars, dgVars, rcpVars, cwVars, idleVars, cpVars, paVars, rsVars>>

\* isEmpty (part_003 lines 216-222).
DraftIsEmpty(content) == content = ""

\* The payload saveDraft builds (lines 232-246); JSON.stringify of it is
\* compared as a whole, draft_id included.
DraftPayload == [draft_id |-> draftMessageId, content |-> drContent]

\* The comparison of line 249.
DraftUnchanged(payload) == lastSavedState = payload

\* The save_draft call of lines 253-258, awaited by sendMail or not.
DraftRequest(payload, send) ==
    [draft_id |-> payload.draft_id, content |-> payload.content,
     n |-> drCalls + 1, send |-> send]

\* saveDraft up to its RPC (lines 212-258), when it does call.
SaveDraftCall(send) ==
    /\ drCalls < MaxDraftCalls
    /\ Cardinality(drInflight) < MaxDraftInflight
    /\ drInflight' = drInflight \cup { DraftRequest(DraftPayload, send) }
    /\ drCalls' = drCalls + 1
    /\ drNullLive' = IF draftMessageId = 0 THEN drNullLive + 1 ELSE drNullLive

\* The user edits the message.
DraftEdit(content) ==
    /\ autoSaveInterval
    /\ content \in DraftContents
    /\ content # drContent
    /\ drContent' = content
    /\ UNCHANGED <<draftMessageId, lastSavedState, autoSaveInterval, drInflight,
                   drSavedContent, drLastTick, drCalls, drSending, drSendDraftId,
                   drSendInflight, drSent, drNullLive>>
    /\ UNCHANGED otherThanDraft

\* The interval fires: saveDraft() with manual = false, up to its RPC
\* (lines 212-256).
AutoSaveTick ==
    LET call == ~DraftIsEmpty(drContent) /\ ~DraftUnchanged(DraftPayload)
    IN  /\ autoSaveInterval
        /\ IF call THEN SaveDraftCall(FALSE)
           ELSE UNCHANGED <<drInflight, drCalls, drNullLive>>
        /\ drLastTick' = [called |-> call,
                          due |-> drContent # "" /\ drContent # drSavedContent,
                          ticked |-> TRUE]
        /\ UNCHANGED <<drContent, draftMessageId, lastSavedState, autoSaveInterval,
                       drSavedContent, drSending, drSendDraftId, drSendInflight, drSent>>
        /\ UNCHANGED otherThanDraft

\* saveDraftClick (lines 471-479): saveDraft(true) skips the comparison of
\* line 249.
SaveDraftClick ==
    /\ autoSaveInterval
    /\ ~DraftIsEmpty(drContent)
    /\ SaveDraftCall(FALSE)
    /\ UNCHANGED <<drContent, draftMessageId, lastSavedState, autoSaveInterval,
                   drSavedContent, drLastTick, drSending, drSendDraftId, drSendInflight,
                   drSent>>
    /\ UNCHANGED otherThanDraft

\* sendMail up to the RPC of its saveDraft(true) (lines 285-337): the
\* send_email payload, draft_id included, is built before the draft is saved.
SendMail ==
    /\ autoSaveInterval
    /\ ~drSending
    /\ ~DraftIsEmpty(drContent)
    /\ drSending' = TRUE
    /\ drSendDraftId' = draftMessageId
    /\ SaveDraftCall(TRUE)
    /\ UNCHANGED <<drContent, draftMessageId, lastSavedState, autoSaveInterval,
                   drSavedContent, drLastTick, drSendInflight, drSent>>
    /\ UNCHANGED otherThanDraft

\* save_draft answers with a draft id (lines 257-267): the id of the draft
\* it was given, or a new one.  When sendMail awaits it, send_email is
\* called with the payload built before (lines 339-344).
SaveDraftOk(r) ==
    LET draftId == IF r.draft_id # 0 THEN r.draft_id ELSE NewDraftId
    IN  /\ r \in drInflight
        /\ drInflight' = drInflight \ {r}
        /\ draftMessageId' = draftId
        /\ lastSavedState' = [draft_id |-> r.draft_id, content |-> r.content]
        /\ drSavedContent' = r.content
        /\ IF r.send
           THEN /\ drSendInflight' = TRUE
                /\ drSent' = [issued |-> TRUE, saved |-> TRUE,
                              draft_id |-> drSendDraftId, stored |-> draftId]
           ELSE UNCHANGED <<drSendInflight, drSent>>
        /\ UNCHANGED <<drContent, autoSaveInterval, drLastTick, drCalls, drSending,
                       drSendDraftId, drNullLive>>
        /\ UNCHANGED otherThanDraft

\* save_draft answers with no id, or the call is rejected (lines 262-264,
\* 268-274): nothing is recorded; saveDraft returns false and sendMail goes
\* on to send_email.
SaveDraftFail(r) ==
    /\ r \in drInflight
    /\ drInflight' = drInflight \ {r}
    /\ drNullLive' = IF r.draft_id = 0 THEN drNullLive - 1 ELSE drNullLive
    /\ IF r.send
       THEN /\ drSendInflight' = TRUE
            /\ drSent' = [issued |-> TRUE, saved |-> FALSE,
                          draft_id |-> drSendDraftId, stored |-> draftMessageId]
       ELSE UNCHANGED <<drSendInflight, drSent>>
    /\ UNCHANGED <<drContent, draftMessageId, lastSavedState, autoSaveInterval,
                   drSavedContent, drLastTick, drCalls, drSending, drSendDraftId>>
    /\ UNCHANGED otherThanDraft

\* send_email answers (lines 346-350, 358-360): the draft id is forgotten
\* and props.close closes the composer, whose onWillUnmount clears the interval.
SendEmailOk ==
    /\ drSendInflight
    /\ drSendInflight' = FALSE
    /\ draftMessageId' = 0
    /\ drSending' = FALSE
    /\ autoSaveInterval' = FALSE
    /\ UNCHANGED <<drContent, lastSavedState, drInflight, drSavedContent, drLastTick,
                   drCalls, drSendDraftId, drSent, drNullLive>>
    /\ UNCHANGED otherThanDraft

\* send_email is rejected (lines 351-360): a notification, the composer stays.
SendEmailFail ==
    /\ drSendInflight
    /\ drSendInflight' = FALSE
    /\ drSending' = FALSE
    /\ UNCHANGED <<drContent, draftMessageId, lastSavedState, autoSaveInterval,
                   drInflight, drSavedContent, drLastTick, drCalls, drSendDraftId,
                   drSent, drNullLive>>
    /\ UNCHANGED otherThanDraft

\* onWillUnmount (lines 107-110): clearInterval.
DraftUnmount ==
    /\ autoSaveInterval
    /\ autoSaveInterval' = FALSE
    /\ UNCHANGED <<drContent, draftMessageId, lastSavedState, drInflight,
                   drSavedContent, drLastTick, drCalls, drSending, drSendDraftId,
                   drSendInflight, drSent, drNullLive>>
    /\ UNCHANGED otherThanDraft

\* setup (lines 45, 70, 106): a new message, nothing saved, the interval set.
DraftInit ==
    /\ drContent = ""
    /\ draftMessageId = 0
    /\ lastSavedState = NoState
    /\ autoSaveInterval = TRUE
    /\ drInflight = {}
    /\ drSavedContent = ""
    /\ drLastTick = NoTick
    /\ drCalls = 0
    /\ drSending = FALSE
    /\ drSendDraftId = 0
    /\ drSendInflight = FALSE
    /\ drSent = NoSent
    /\ drNullLive = 0

DraftNext ==
    \/ \E content \in DraftContents : DraftEdit(content)
    \/ AutoSaveTick
    \/ SaveDraftClick
    \/ SendMail
    \/ \E r \in drInflight : SaveDraftOk(r)
    \/ \E r \in drInflight : SaveDraftFail(r)
    \/ SendEmailOk
    \/ SendEmailFail
    \/ DraftUnmount

----------------------------------------------------------------------------
(* List view column widths: getFieldWidthSpecs, getWidthSpecs, computeWidths *)

\* Widths are held in units of 1/PX pixel, so that the divisions of the
\* redistribution loops (by the number of columns, at most three times in
\* a row) are exact, as they are on the doubles of the code.
PX == 72
\* Data columns of the list.
MaxColumns == 2

\* FIELD_WIDTHS (lines 224-255); 0 stands for null or absent.
SingleWidth == 43
DefaultMinWidth == 80
FieldWidths(fieldType) ==
    CASE fieldType = "boolean" -> [width |-> 0, minWidth |-> 20, maxWidth |-> 100]
      [] fieldType = "char"    -> [width |-> 0, minWidth |-> 80, maxWidth |-> 0]
      [] fieldType = "date"    -> [width |-> 90, minWidth |-> 0, maxWidth |-> 0]
      [] fieldType = "text"    -> [width |-> 0, minWidth |-> 80, maxWidth |-> 1200]
      [] OTHER                 -> [width |-> 0, minWidth |-> 0, maxWidth |-> 0]

\* getFieldWidthSpecs (lines 349-364).
GetFieldWidthSpecs(fieldType) ==
    LET fieldConfig == FieldWidths(fieldType)
    IN  IF fieldConfig.width # 0
        THEN [minWidth |-> fieldConfig.width, maxWidth |-> fieldConfig.width]
        ELSE [minWidth |-> IF fieldConfig.minWidth # 0 THEN fieldConfig.minWidth
                           ELSE DefaultMinWidth,
              maxWidth |-> fieldConfig.maxWidth]

\* getWidthSpecs for one column (lines 370-413) that has no width attribute,
\* no listViewWidth and is not a single-icon column: the field type's specs
\* are taken (lines 397-399) and, width being undefined, minWidth is then
\* set to the default (lines 408-410).
GetWidthSpecs(column) ==
    LET specs == IF column.type = "field" THEN GetFieldWidthSpecs(column.fieldType)
                 ELSE [minWidth |-> 0, maxWidth |-> 0]
    IN  [minWidth |-> DefaultMinWidth * PX,
         maxWidth |-> specs.maxWidth * PX,
         canShrink |-> column.type = "field",
         autofit |-> ~column.hasLabel]

\* The columns a list can have.
ColumnKinds ==
    { [type |-> "field", fieldType |-> "boolean", hasLabel |-> TRUE],
      [type |-> "field", fieldType |-> "char", hasLabel |-> TRUE],
      [type |-> "field", fieldType |-> "date", hasLabel |-> TRUE],
      [type |-> "field", fieldType |-> "text", hasLabel |-> TRUE],
      [type |-> "field", fieldType |-> "char", hasLabel |-> FALSE],
      [type |-> "widget", fieldType |-> "", hasLabel |-> TRUE] }
\* Starting widths and allowed widths, in pixels.
StartWidths == {10, 95, 150}
AllowedWidths == {100, 200, 300, 1500}
\* What analyzeContent measures in the cells of an auto-fitted column, in pixels.
MeasuredWidth == 60

otherThanCw == <<listVars, selVars, opsVars, npiVars, termsVars, feeVars, searchVars, otpVars, dgVars, rcpVars, drVars, idleVars, cpVars, paVars, rsVars>>

CwMax(a, b) == IF a > b THEN a ELSE b
CwMin(a, b) == IF a < b THEN a ELSE b

RECURSIVE CwSum(_)
CwSum(widths) == IF widths = <<>> THEN 0 ELSE Head(widths) + CwSum(Tail(widths))

\* Lines 463-479: the width of an auto-fitted column is its content's, the
\* others are brought between minWidth and maxWidth.  ClampSkipped is the
\* variant that leaves the starting width.
ClampSkipped(width, spec) == width
Clamp(width, spec) ==
    IF spec.autofit THEN MeasuredWidth * PX
    ELSE LET atLeast == CwMax(width, spec.minWidth)
         IN  IF spec.maxWidth # 0 THEN CwMin(atLeast, spec.maxWidth) ELSE atLeast

\* One pass of the for loop of lines 510-521 over the shrinkable columns.
RECURSIVE ShrinkPass(_, _, _, _, _, _)
ShrinkPass(widths, diff, remaining, colDiff, specs, todo) ==
    IF todo = <<>> THEN [widths |-> widths, diff |-> diff, remaining |-> remaining]
    ELSE LET i == Head(todo)
             minWidth == specs[i].minWidth
             currentWidth == widths[i]
             newWidth == CwMax(currentWidth - colDiff, minWidth)
         IN  IF currentWidth = minWidth
             THEN ShrinkPass(widths, diff, remaining, colDiff, specs, Tail(todo))
             ELSE ShrinkPass([widths EXCEPT ![i] = newWidth],
                             diff - (currentWidth - newWidth),
                             IF newWidth = minWidth THEN remaining - 1 ELSE remaining,
                             colDiff, specs, Tail(todo))

\* The while loop of lines 508-522.
RECURSIVE ShrinkLoop(_, _, _, _, _)
ShrinkLoop(widths, diff, remaining, specs, todo) ==
    IF diff >= PX /\ remaining > 0
    THEN LET r == ShrinkPass(widths, diff, remaining, diff \div remaining, specs, todo)
         IN  ShrinkLoop(r.widths, r.diff, r.remaining, specs, todo)
    ELSE widths

\* The column indices of a set in the order of the for loops that push them.
RECURSIVE CwInOrder(_)
CwInOrder(indices) ==
    IF indices = {} THEN <<>>
    ELSE LET first == CHOOSE i \in indices : \A j \in indices : i <= j
         IN  <<first>> \o CwInOrder(indices \ {first})

\* The overflow branch (lines 486-523).
Shrink(widths, diff, specs) ==
    LET IsShrinkable(i) == widths[i] > specs[i].minWidth /\ specs[i].canShrink
        shrinkableColumns == CwInOrder({i \in DOMAIN widths : IsShrinkable(i)})
        totalAvailableSpace ==
            CwSum([k \in DOMAIN shrinkableColumns |->
                      widths[shrinkableColumns[k]] - specs[shrinkableColumns[k]].minWidth])
    IN  IF diff > totalAvailableSpace
        THEN [i \in DOMAIN widths |->
                 IF IsShrinkable(i) THEN specs[i].minWidth ELSE widths[i]]
        ELSE ShrinkLoop(widths, diff, Len(shrinkableColumns), specs, shrinkableColumns)

\* One pass of the for loop of lines 541-553 over the expandable columns.
RECURSIVE ExpandPass(_, _, _, _, _, _)
ExpandPass(widths, diff, remaining, colDiff, specs, todo) ==
    IF todo = <<>> THEN [widths |-> widths, diff |-> diff, remaining |-> remaining]
    ELSE LET i == Head(todo)
             maxWidth == specs[i].maxWidth
             currentWidth == widths[i]
             newWidth == IF maxWidth # 0 THEN CwMin(currentWidth + colDiff, maxWidth)
                         ELSE currentWidth + colDiff
         IN  ExpandPass([widths EXCEPT ![i] = newWidth],
                        diff - (newWidth - currentWidth),
                        IF maxWidth # 0 /\ newWidth = maxWidth THEN remaining - 1
                        ELSE remaining,
                        colDiff, specs, Tail(todo))

\* The while loop of lines 539-554.
RECURSIVE ExpandLoop(_, _, _, _, _)
ExpandLoop(widths, diff, remaining, specs, todo) ==
    IF diff >= PX /\ remaining > 0
    THEN LET r == ExpandPass(widths, diff, remaining, diff \div remaining, specs, todo)
         IN  ExpandLoop(r.widths, r.diff, r.remaining, specs, todo)
    ELSE [widths |-> widths, diff |-> diff]

\* The spare-space branch (lines 524-564); spread tells that lines 557-563 ran.
Expand(widths, diff, specs) ==
    LET IsExpandable(i) == specs[i].maxWidth = 0 \/ widths[i] < specs[i].maxWidth
        expandableColumns == CwInOrder({i \in DOMAIN widths : IsExpandable(i)})
        r == ExpandLoop(widths, diff, Len(expandableColumns), specs, expandableColumns)
    IN  IF r.diff >= PX
        THEN [widths |-> [i \in DOMAIN widths |-> r.widths[i] + (r.diff \div Len(widths))],
              spread |-> TRUE]
        ELSE [widths |-> r.widths, spread |-> FALSE]

\* computeWidths (lines 425-567) for the data columns, given their starting
\* widths; the selector column, when there is one, takes 2 * 43 pixels.
ComputeWidths(columns, hasSelectors, allowedWidth, startingWidths) ==
    LET specs == [i \in DOMAIN columns |-> GetWidthSpecs(columns[i])]
        clamped == [i \in DOMAIN columns |-> Clamp(startingWidths[i], specs[i])]
        system == IF hasSelectors THEN SingleWidth * 2 * PX ELSE 0
        diff == system + CwSum(clamped) - allowedWidth
    IN  IF diff >= PX THEN [widths |-> Shrink(clamped, diff, specs), spread |-> FALSE]
        ELSE IF diff <= -PX THEN Expand(clamped, -diff, specs)
        ELSE [widths |-> clamped, spread |-> FALSE]

\* A call of computeWidths with starting widths.
ComputeWidthsCall(columns, hasSelectors, allowedWidth, startingWidths) ==
    LET r == ComputeWidths(columns, hasSelectors, allowedWidth * PX,
                           [i \in DOMAIN startingWidths |-> startingWidths[i] * PX])
    IN  /\ ~cwCalled
        /\ Len(columns) = Len(startingWidths)
        /\ cwColumns' = columns
        /\ cwSelectors' = hasSelectors
        /\ cwAllowed' = allowedWidth * PX
        /\ cwStart' = [i \in DOMAIN startingWidths |-> startingWidths[i] * PX]
        /\ cwResult' = r.widths
        /\ cwSpread' = r.spread
        /\ cwCalled' = TRUE
        /\ UNCHANGED otherThanCw

\* The list is rendered anew: the widths are forgotten.
CwForget ==
    /\ cwCalled
    /\ cwColumns' = <<>>
    /\ cwSelectors' = FALSE
    /\ cwAllowed' = 0
    /\ cwStart' = <<>>
    /\ cwResult' = <<>>
    /\ cwSpread' = FALSE
    /\ cwCalled' = FALSE
    /\ UNCHANGED otherThanCw

\* No list rendered yet.
CwInit ==
    /\ cwColumns = <<>>
    /\ cwSelectors = FALSE
    /\ cwAllowed = 0
    /\ cwStart = <<>>
    /\ cwResult = <<>>
    /\ cwSpread = FALSE
    /\ cwCalled = FALSE

CwNext ==
    \/ \E n \in 1..MaxColumns :
           \E columns \in [1..n -> ColumnKinds], startingWidths \in [1..n -> StartWidths],
              hasSelectors \in BOOLEAN, allowedWidth \in AllowedWidths :
               ComputeWidthsCall(columns, hasSelectors, allowedWidth, startingWidths)
    \/ CwForget

----------------------------------------------------------------------------
(* MailDesk idle signalling: onMounted and onWillUnmount *)

\* Mail accounts of the user (state.accounts).
MaxAccounts == 3
\* Ticks of the 30 s interval that are followed.
MaxTouches == 2

IdleAccounts == 1..MaxAccounts

otherThanIdle == <<listVars, selVars, opsVars, npiVars, termsVars, feeVars, searchVars, otpVars, dgVars, rcpVars, drVars, cwVars, cpVars, paVars, rsVars>>

\* A call issued now counts as late when the component is unmounted.
IdleCall(name, phase) == IF phase = "unmounted" THEN idleLate \cup {name} ELSE idleLate

\* onMounted up to its first await (lines 144-167): the token of the first
\* account is stored and idle_subscribe is called.
IdleOnMounted ==
    /\ idlePhase = "new"
    /\ idlePhase' = "mounted"
    /\ idlePos' = 1
    /\ idleTokens' = idleTokens \cup {1}
    /\ UNCHANGED <<idlePing, idleSubscribed, idleUnsubscribed, idleTouches, idleLate>>
    /\ UNCHANGED otherThanIdle

\* The awaited idle_subscribe answers or fails (lines 166-170); the loop
\* goes on with the next account, or ends and the interval is set
\* (lines 172-177).  Nothing looks at whether the component is still mounted.
IdleSubscribeDone(ok) ==
    /\ idlePos \in IdleAccounts
    /\ idleSubscribed' = IF ok THEN idleSubscribed \cup {idlePos} ELSE idleSubscribed
    /\ idlePos' = idlePos + 1
    /\ IF idlePos < MaxAccounts
       THEN /\ idleTokens' = idleTokens \cup {idlePos + 1}
            /\ idleLate' = IdleCall("idle_subscribe", idlePhase)
            /\ UNCHANGED idlePing
       ELSE /\ idlePing' = TRUE
            /\ UNCHANGED <<idleTokens, idleLate>>
    /\ UNCHANGED <<idlePhase, idleUnsubscribed, idleTouches>>
    /\ UNCHANGED otherThanIdle

\* The interval fires (lines 172-177): idle_touch for every account that
\* has a token.
IdlePingTick ==
    /\ idlePing
    /\ idleTouches < MaxTouches
    /\ idleTouches' = idleTouches + 1
    /\ idleLate' = IF idleTokens # {} THEN IdleCall("idle_touch", idlePhase) ELSE idleLate
    /\ UNCHANGED <<idlePhase, idlePos, idleTokens, idlePing, idleSubscribed, idleUnsubscribed>>
    /\ UNCHANGED otherThanIdle

\* onWillUnmount (lines 181-202): idle_unsubscribe for the tokens stored so
\* far, the map is cleared, the interval is cleared if it is set.
IdleOnWillUnmount ==
    /\ idlePhase = "mounted"
    /\ idlePhase' = "unmounted"
    /\ idleUnsubscribed' = idleUnsubscribed \cup idleTokens
    /\ idleTokens' = {}
    /\ idlePing' = FALSE
    /\ UNCHANGED <<idlePos, idleSubscribed, idleTouches, idleLate>>
    /\ UNCHANGED otherThanIdle

\* setup (line 88): no token, no interval.
IdleInit ==
    /\ idlePhase = "new"
    /\ idlePos = 0
    /\ idleTokens = {}
    /\ idlePing = FALSE
    /\ idleSubscribed = {}
    /\ idleUnsubscribed = {}
    /\ idleTouches = 0
    /\ idleLate = {}

IdleNext ==
    \/ IdleOnMounted
    \/ \E ok \in BOOLEAN : IdleSubscribeDone(ok)
    \/ IdlePingTick
    \/ IdleOnWillUnmount

----------------------------------------------------------------------------
(* ContactPickerDialog: search, paging, reload (maildesk_mail_client
   readme/CHANGELOG.md) *)

\* state.pageSize.
PageSize == 15
\* reload() calls in flight at the same time.
MaxCpInflight == 2

\* What the search box can hold.
CpSearches == {"", "a", "ab"}

\* Partners with an e-mail address the server has for a search text: more
\* than two pages for no filter, more than one page for "a", one partner
\* for "ab".
CpTotalAll == 31
CpTotalA == 16
CpTotalAb == 1

otherThanCp == <<listVars, selVars, opsVars, npiVars, termsVars, feeVars, searchVars, otpVars, dgVars, rcpVars, drVars, cwVars, idleVars, paVars, rsVars>>

\* count_partners_with_email_activity for the domain of a search text.
CountPartners(search) ==
    CASE search = "" -> CpTotalAll
      [] search = "a" -> CpTotalA
      [] OTHER -> CpTotalAb

\* get_partners_with_email_activity(domain, offset, limit): the page is
\* named by the search text of its domain and its offset; length is the
\* number of partners in it.
GetPartners(search, offset) ==
    LET rest == CountPartners(search) - offset
    IN  [search |-> search, offset |-> offset,
         length |-> IF rest < 0 THEN 0 ELSE IF rest > PageSize THEN PageSize ELSE rest]

\* The first page of every search has a partner with category 1, the
\* other pages have no categories.
CpTagIds(partners) == IF partners.offset = 0 /\ partners.length > 0 THEN {1} ELSE {}

\* state.results = [] of setup.
NoPartners == [search |-> "", offset |-> 0, length |-> 0]

\* The getters start and end of the state (lines 66-71).
CpStart == cpPage * PageSize
CpEnd == IF CpStart + cpResults.length < cpTotal THEN CpStart + cpResults.length
         ELSE cpTotal

\* reload() up to its first await (lines 108-122): the domain is built from
\* state.search and the count is requested.
Reload ==
    LET r == [search |-> cpSearch, stage |-> "count", partners |-> NoPartners]
    IN  /\ Cardinality(cpInflight) < MaxCpInflight
        /\ r \notin cpInflight
        /\ cpInflight' = cpInflight \cup {r}

\* onWillStart(() => this.reload()) (line 74).
CpWillStart ==
    /\ ~cpStarted
    /\ cpStarted' = TRUE
    /\ Reload
    /\ UNCHANGED <<cpSearch, cpPage, cpTotal, cpResults, cpTagMap, cpDebounce>>
    /\ UNCHANGED otherThanCp

\* onSearchInput(ev) (lines 83-87); reloadDebounced restarts its timer.
CpOnSearchInput(text) ==
    /\ cpStarted
    /\ text # cpSearch
    /\ cpSearch' = text
    /\ cpPage' = 0
    /\ cpDebounce' = TRUE
    /\ UNCHANGED <<cpStarted, cpTotal, cpResults, cpTagMap, cpInflight>>
    /\ UNCHANGED otherThanCp

\* The timer of useDebounced(this.reload.bind(this), 300) fires (line 75).
CpDebounceFire ==
    /\ cpDebounce
    /\ cpDebounce' = FALSE
    /\ Reload
    /\ UNCHANGED <<cpStarted, cpSearch, cpPage, cpTotal, cpResults, cpTagMap>>
    /\ UNCHANGED otherThanCp

\* nextPage() up to the await in reload (lines 94-99).
NextPage ==
    /\ cpStarted
    /\ CpEnd < cpTotal
    /\ cpPage' = cpPage + 1
    /\ Reload
    /\ UNCHANGED <<cpStarted, cpSearch, cpTotal, cpResults, cpTagMap, cpDebounce>>
    /\ UNCHANGED otherThanCp

\* prevPage() up to the await in reload (lines 101-106).
PrevPage ==
    /\ cpStarted
    /\ cpPage # 0
    /\ cpPage' = cpPage - 1
    /\ Reload
    /\ UNCHANGED <<cpStarted, cpSearch, cpTotal, cpResults, cpTagMap, cpDebounce>>
    /\ UNCHANGED otherThanCp

\* The count is answered (lines 118-129): state.total is assigned and the
\* page is requested with the domain of the call and the offset
\* state.start has now.
ReloadCountOk(r) ==
    /\ r \in cpInflight
    /\ r.stage = "count"
    /\ cpTotal' = CountPartners(r.search)
    /\ cpInflight' = (cpInflight \ {r}) \cup
           { [r EXCEPT !.stage = "partners",
                       !.partners = GetPartners(r.search, CpStart)] }
    /\ UNCHANGED <<cpStarted, cpSearch, cpPage, cpResults, cpTagMap, cpDebounce>>
    /\ UNCHANGED otherThanCp

\* The page is answered (lines 124-143): with categories to read the tags
\* are requested, without them state.results is assigned.
ReloadPartnersOk(r) ==
    /\ r \in cpInflight
    /\ r.stage = "partners"
    /\ IF CpTagIds(r.partners) # {}
       THEN /\ cpInflight' = (cpInflight \ {r}) \cup { [r EXCEPT !.stage = "tags"] }
            /\ UNCHANGED cpResults
       ELSE /\ cpInflight' = cpInflight \ {r}
            /\ cpResults' = r.partners
    /\ UNCHANGED <<cpStarted, cpSearch, cpPage, cpTotal, cpTagMap, cpDebounce>>
    /\ UNCHANGED otherThanCp

\* The tags are answered (lines 133-143).
ReloadTagsOk(r) ==
    /\ r \in cpInflight
    /\ r.stage = "tags"
    /\ cpInflight' = cpInflight \ {r}
    /\ cpTagMap' = cpTagMap \cup CpTagIds(r.partners)
    /\ cpResults' = r.partners
    /\ UNCHANGED <<cpStarted, cpSearch, cpPage, cpTotal, cpDebounce>>
    /\ UNCHANGED otherThanCp

\* ContactPickerDialog.setup (lines 59-75).
CpInit ==
    /\ cpStarted = FALSE
    /\ cpSearch = ""
    /\ cpPage = 0
    /\ cpTotal = 0
    /\ cpResults = NoPartners
    /\ cpTagMap = {}
    /\ cpDebounce = FALSE
    /\ cpInflight = {}

CpNext ==
    \/ CpWillStart
    \/ \E text \in CpSearches : CpOnSearchInput(text)
    \/ CpDebounceFire
    \/ NextPage
    \/ PrevPage
    \/ \E r \in cpInflight : ReloadCountOk(r)
    \/ \E r \in cpInflight : ReloadPartnersOk(r)
    \/ \E r \in cpInflight : ReloadTagsOk(r)

----------------------------------------------------------------------------
(* ColorPaletteConfig: apply, reset, genStyleAssets (omux_color_scheme
   static/src/conf/list.js) *)

\* apply() calls made.
MaxApplies == 2
\* Entries of a preset in the definition of the installed module.
NumEntries == 2

PaPresets == {"metronic", "slate"}

otherThanPa == <<listVars, selVars, opsVars, npiVars, termsVars, feeVars, searchVars, otpVars, dgVars, rcpVars, drVars, cwVars, idleVars, cpVars, rsVars>>

\* The ir.asset record created for entry k of a preset by apply() call c.
PaRecord(c, preset, k) == [call |-> c, preset |-> preset, k |-> k]

\* The records genStyleAssets creates for a preset (lines 743-776).
PaPresetRecords(c, preset) == { PaRecord(c, preset, k) : k \in 1..NumEntries }

NoApply == [installed |-> FALSE, atReload |-> {}, deletedOwn |-> FALSE]

\* A preset card is clicked.
PaSelectPreset(p) ==
    /\ paApply = "idle"
    /\ p # paPreset
    /\ paPreset' = p
    /\ UNCHANGED <<paApply, paCall, paGenNext, paReset, paUnlinks, paAssets, paLast>>
    /\ UNCHANGED otherThanPa

\* apply() up to its await (lines 725-731).
PaApply ==
    /\ paApply = "idle"
    /\ paCall < MaxApplies
    /\ paApply' = "modules"
    /\ paCall' = paCall + 1
    /\ paLast' = NoApply
    /\ UNCHANGED <<paPreset, paGenNext, paReset, paUnlinks, paAssets>>
    /\ UNCHANGED otherThanPa

\* The module states are answered (lines 732-740). With a module installed
\* reset(true) is called and not awaited, then genStyleAssets runs to its
\* first create; def[null] of no preset makes Object.entries throw, and
\* apply() is rejected before its reload. With no module installed the
\* page is reloaded.
PaModulesOk(installed) ==
    /\ paApply = "modules"
    /\ IF installed
       THEN /\ paReset' = "search"
            /\ paApply' = IF paPreset = "none" THEN "failed" ELSE "gen"
            /\ paGenNext' = 1
            /\ paLast' = [paLast EXCEPT !.installed = TRUE]
       ELSE /\ paApply' = "reloaded"
            /\ paLast' = [paLast EXCEPT !.atReload = paAssets]
            /\ UNCHANGED <<paReset, paGenNext>>
    /\ UNCHANGED <<paPreset, paCall, paUnlinks, paAssets>>
    /\ UNCHANGED otherThanPa

\* A create of genStyleAssets is answered (lines 750-773); after the last
\* one apply() reloads the page (line 740).
PaCreateOk ==
    LET assets == paAssets \cup { PaRecord(paCall, paPreset, paGenNext) }
    IN  /\ paApply = "gen"
        /\ paAssets' = assets
        /\ IF paGenNext = NumEntries
           THEN /\ paApply' = "reloaded"
                /\ paLast' = [paLast EXCEPT !.atReload = assets]
                /\ UNCHANGED paGenNext
           ELSE /\ paGenNext' = paGenNext + 1
                /\ UNCHANGED <<paApply, paLast>>
        /\ UNCHANGED <<paPreset, paCall, paReset, paUnlinks>>
    /\ UNCHANGED otherThanPa

\* The searchRead of reset is answered while the page lives (lines 711-719):
\* every record under omux_color_scheme/static/set is to be unlinked.
PaResetSearchOk ==
    /\ paReset = "search"
    /\ paApply # "reloaded"
    /\ IF paAssets # {}
       THEN /\ paUnlinks' = paUnlinks \cup { [call |-> paCall, ids |-> paAssets] }
            /\ paReset' = "unlink"
       ELSE /\ paReset' = "done"
            /\ UNCHANGED paUnlinks
    /\ UNCHANGED <<paPreset, paApply, paCall, paGenNext, paAssets, paLast>>
    /\ UNCHANGED otherThanPa

\* The server carries out an unlink (line 719); the page that sent it may
\* have been reloaded since.
PaUnlinkDone(u) ==
    /\ u \in paUnlinks
    /\ paUnlinks' = paUnlinks \ {u}
    /\ paAssets' = paAssets \ u.ids
    /\ paReset' = IF paReset = "unlink" /\ u.call = paCall /\ paApply # "reloaded"
                  THEN "done" ELSE paReset
    /\ paLast' = IF u.call = paCall /\ \E rec \in u.ids \cap paAssets : rec.call = u.call
                 THEN [paLast EXCEPT !.deletedOwn = TRUE]
                 ELSE paLast
    /\ UNCHANGED <<paPreset, paApply, paCall, paGenNext>>
    /\ UNCHANGED otherThanPa

\* After the reload the configuration is opened again (setup, lines 701-708).
PaOpen ==
    /\ paApply = "reloaded"
    /\ paApply' = "idle"
    /\ paPreset' = "none"
    /\ paReset' = "none"
    /\ UNCHANGED <<paCall, paGenNext, paUnlinks, paAssets, paLast>>
    /\ UNCHANGED otherThanPa

\* ColorPaletteConfig.setup with the records of an earlier apply installed.
PaInit ==
    /\ paPreset = "none"
    /\ paApply = "idle"
    /\ paCall = 0
    /\ paGenNext = 1
    /\ paReset = "none"
    /\ paUnlinks = {}
    /\ paAssets = PaPresetRecords(0, "metronic")
    /\ paLast = NoApply

PaNext ==
    \/ \E p \in PaPresets : PaSelectPreset(p)
    \/ PaApply
    \/ \E installed \in BOOLEAN : PaModulesOk(installed)
    \/ PaCreateOk
    \/ PaResetSearchOk
    \/ \E u \in paUnlinks : PaUnlinkDone(u)
    \/ PaOpen

----------------------------------------------------------------------------
(* OTP verification page: resend cooldown (unnamed/part_000) *)

\* The cooldown the click listener starts, in seconds.
ResendSeconds == 60
\* Clicks on the Resend button.
MaxResendClicks == 2
\* Timer ids handed out by setTimeout.
RsTimerIds == 1..2

otherThanRs == <<listVars, selVars, opsVars, npiVars, termsVars, feeVars, searchVars, otpVars, dgVars, rcpVars, drVars, cwVars, idleVars, cpVars, paVars>>

\* The label of the template, `Resend Code (${n}s)` and 'Resend Code'.
RsTemplateText == [kind |-> "template", s |-> 0]
RsCountdownText(n) == [kind |-> "countdown", s |-> n]
RsPlainText == [kind |-> "plain", s |-> 0]

\* The id setTimeout returns: one no pending timer has.
RsNewTimer(pending) == CHOOSE t \in RsTimerIds :
                           /\ t \notin pending
                           /\ \A u \in RsTimerIds \ pending : t <= u

\* updateResendButton() as a function of the cooldown and the pending timers
\* it finds (lines 92-106): what it leaves in the button, the label, the
\* closure variables and the timers.
\* UpdateResendButtonEnabled is the variant that never disables the button.
UpdateResendButtonEnabled(cooldown, pending) ==
    IF cooldown > 0
    THEN [disabled |-> FALSE, text |-> RsCountdownText(cooldown),
          cooldown |-> cooldown - 1, timer |-> RsNewTimer(pending),
          pending |-> pending \cup {RsNewTimer(pending)}]
    ELSE [disabled |-> FALSE, text |-> RsPlainText, cooldown |-> cooldown,
          timer |-> 0, pending |-> pending \ {resendTimer}]
UpdateResendButton(cooldown, pending) ==
    IF cooldown > 0
    THEN [disabled |-> TRUE, text |-> RsCountdownText(cooldown),
          cooldown |-> cooldown - 1, timer |-> RsNewTimer(pending),
          pending |-> pending \cup {RsNewTimer(pending)}]
    ELSE [disabled |-> FALSE, text |-> RsPlainText, cooldown |-> cooldown,
          timer |-> 0, pending |-> pending \ {resendTimer}]

RsApply(u) ==
    /\ rsDisabled' = u.disabled
    /\ rsText' = u.text
    /\ resendCooldown' = u.cooldown
    /\ resendTimer' = u.timer
    /\ rsPending' = u.pending

\* The click listener of the Resend button (lines 111-115); a disabled
\* button receives no click.
ResendClick ==
    /\ ~rsDisabled
    /\ rsClicks < MaxResendClicks
    /\ RsApply(UpdateResendButton(ResendSeconds, rsPending))
    /\ rsClicks' = rsClicks + 1
    /\ rsTicks' = 0
    /\ UNCHANGED otherThanRs

\* A timer armed at line 97 runs updateResendButton one second later.
ResendTick(t) ==
    /\ t \in rsPending
    /\ RsApply(UpdateResendButton(resendCooldown, rsPending \ {t}))
    /\ rsTicks' = rsTicks + 1
    /\ UNCHANGED rsClicks
    /\ UNCHANGED otherThanRs

\* DOMContentLoaded (lines 86-90): no cooldown, no timer, the button and its
\* label as the template rendered them.
RsInit ==
    /\ resendCooldown = 0
    /\ resendTimer = 0
    /\ rsPending = {}
    /\ rsDisabled = FALSE
    /\ rsText = RsTemplateText
    /\ rsClicks = 0
    /\ rsTicks = 0

RsNext ==
    \/ ResendClick
    \/ \E t \in rsPending : ResendTick(t)

----------------------------------------------------------------------------
(* Specifications *)

Init == ListInit /\ SelInit /\ OpsInit /\ NpiInit /\ TermsInit /\ FeeInit /\ SearchInit /\ OtpInit /\ DgInit /\ RcpInit /\ DraftInit /\ CwInit /\ IdleInit /\ CpInit /\ PaInit /\ RsInit

Spec       == Init /\ [][ListNext]_vars
SpecSelect == Init /\ [][SelNext]_vars
SpecOps    == Init /\ [][OpsNext]_vars
SpecFlags  == Init /\ [][FlagsNext]_vars
SpecNpi    == Init /\ [][NpiNext]_vars
SpecTerms  == Init /\ [][TermsNext]_vars
SpecFee    == Init /\ [][FeeNext]_vars
SpecSearch == Init /\ [][SearchNext]_vars
SpecOtp    == Init /\ [][OtpNext]_vars
SpecDigits == Init /\ [][DgNext]_vars
SpecRecipients == Init /\ [][RcpNext]_vars
SpecDraft  == Init /\ [][DraftNext]_vars
SpecWidths == Init /\ [][CwNext]_vars
SpecIdle   == Init /\ [][IdleNext]_vars
SpecContacts == Init /\ [][CpNext]_vars
SpecPalette == Init /\ [][PaNext]_vars
SpecResend == Init /\ [][RsNext]_vars

----------------------------------------------------------------------------
(* Properties *)

\* C1: the completion of a list request that arrives after a newer request
\* has bumped the request stamp leaves state.messages, totalMessagesCount
\* and messageOffset as they were, whether the request succeeded or failed.
C1_StaleDiscarded == last.stale => ~last.changed

\* C2: when two refreshMessages calls A and B, issued in that order with
\* nothing else acting on the list, have both succeeded, state.messages
\* holds exactly the records of B's answer in B's order, whichever answer
\* arrived first.
C2_LastWriteWins ==
    \A a, b \in done :
        (a.later = 1 /\ b.later = 0) =>
            messages = [i \in DOMAIN b.resp |-> Row(b.resp[i])]

\* C2 witness: A's answer arrived after B's, with other records than B's,
\* and B's answer holds two records.
C2_Witness ==
    \E a, b \in done :
        /\ a.later = 1 /\ b.later = 0
        /\ a.late
        /\ a.resp # b.resp
        /\ Len(b.resp) = 2

\* C3: state.messages never holds two rows with the same merge key.
C3_NoDuplicates ==
    \A i, j \in DOMAIN messages :
        i # j => MsgKey(messages[i]) # MsgKey(messages[j])

\* C3 witness: a load-more page arrived for an offset below the number of
\* rows shown (bus events had added rows without moving the offset), so the
\* page held rows already shown, and it added rows.
C3_Witness ==
    /\ last.kind = "more" /\ last.ok /\ ~last.stale /\ last.msgsChanged
    /\ messageOffset < Len(messages)

C4_FailureKeepsRows == ~last.ok => ~last.msgsChanged

\* C10: state.messages never holds more than MAX_ROWS rows.
C10_Capped == Len(messages) <= MAX_ROWS

\* C5: the completion of a selectMessage call that a later call has
\* superseded writes neither selectedMessage nor isLoadingMessage; once
\* every call has completed, isLoadingMessage is false and selectedMessage
\* is the message of the latest call, or null if its fetch failed.
C5_TokenCancels ==
    /\ selLast.stale => ~selLast.wrote
    /\ (selInflight = {} /\ selLatest.outcome # "none") =>
           /\ ~isLoadingMessage
           /\ selectedMessage = IF selLatest.outcome = "ok" THEN selLatest.id ELSE 0

\* C5 witness: the superseded call completed last, after the latest call
\* had succeeded, and the latest call's message is the one selected.
C5_Witness ==
    /\ selLast.stale
    /\ selInflight = {}
    /\ selLatest.outcome = "ok"
    /\ selectedMessage = selLatest.id

\* C6: the submit event goes through only if the endpoint has reported
\* valid for the NPI and the name the form holds.
C6_SubmitOnlyIfValidated ==
    submitResult = "allowed" => <<npiValue, nameValue>> \in npiReported

C8_LastSentIsSelected ==
    (feeSelected # 0 /\ ProviderId(feeSelected) # 0) =>
        feeLastSent = ProviderId(feeSelected)

\* C17: once an update_fee request has succeeded the page has been reloaded.
C17_ReloadAfterUpdate == feeUpdated => feeReloaded

\* C9: no MailDesk operation lets an RPC rejection escape uncaught.
C9_NoEscape == opsUnhandled = {}

\* C12: while keystrokes keep arriving less than 800 ms apart no
\* refreshMessages call is made for them; when the burst is over exactly
\* one call has been made, 800 ms after its last keystroke, with the query
\* the search box then held.
C12_SearchDebounced ==
    /\ searchBurstCalls <= 1
    /\ searchTimer >= 0 => searchBurstCalls = 0
    /\ (searchTimer = -1 /\ searchBurstCalls # -1) =>
           /\ searchBurstCalls = 1
           /\ searchCallQuery = searchQuery
           /\ searchCallGap = DebounceTicks

\* C12 witness: the second burst of keystrokes has ended with its one call,
\* made for a query of three characters.
C12_Witness ==
    /\ searchTimer = -1
    /\ searchBurstCalls = 1
    /\ searchCalls = 2
    /\ searchCallQuery = "inv"

\* C13: every input or paste event that leaves exactly 6 digits in the OTP
\* field has a timer running that is due 300 ms after the event, and the
\* form is submitted by such a timer, 300 ms after its event; no action of
\* the user other than the event is involved.
C13_AutoSubmit ==
    /\ ~otpSubmitted =>
           /\ Len(otpTimers) = Len(otpDue)
           /\ \A i \in DOMAIN otpTimers : otpTimers[i] = OtpDelayTicks - otpDue[i]
    /\ otpSubmitted => otpSubmitAge = OtpDelayTicks

\* C13 witness: the form has been submitted by a timer while the field held
\* six digits.
C13_Witness == otpSubmitted /\ Len(otpValue) = 6 /\ otpSubmitAge = OtpDelayTicks

\* C14: after every input or paste event on the OTP field (limit 6) or the
\* NPI field (limit 10) the value consists of digits only, is no longer
\* than the limit, and is the text the event brought with its non-digits
\* removed, cut to the limit.
C14_DigitsOnly ==
    dgEvent # "none" =>
        LET kept == SelectSeq(dgRaw, LAMBDA ch : ch \in {"0", "9"})
        IN  /\ \A i \in DOMAIN dgValue : dgValue[i] \in {"0", "9"}
            /\ Len(dgValue) <= (IF dgField = "otp" THEN 6 ELSE 10)
            /\ Len(dgValue) = (IF Len(kept) < DgLimit THEN Len(kept) ELSE DgLimit)
            /\ \A i \in DOMAIN dgValue : dgValue[i] = kept[i]

\* C14 witness: an event brought more than the limit and a non-digit, and
\* the NPI field holds ten digits.
C14_Witness ==
    /\ dgField = "npi" /\ dgEvent = "input"
    /\ Len(dgRaw) > 10
    /\ \E i \in DOMAIN dgRaw : dgRaw[i] = "x"
    /\ Len(dgValue) = 10

\* C15: no recipient list (To, Cc or Bcc) holds the same email address twice.
C15_NoDuplicateRecipients ==
    \A f \in RcpFields : \A i, j \in DOMAIN rcpLists[f] :
        i # j => rcpLists[f][i].email # rcpLists[f][j].email

\* C16: an autosave tick calls save_draft if and only if the composer
\* content is non-empty and differs from the content of the last
\* successful save.
C16_AutosaveIffChanged == drLastTick.ticked => (drLastTick.called <=> drLastTick.due)

C19_LoadingMoreReset == loadingMore => ByKind("more") # {}

\* C20: when no refreshMessages or refreshLight call is in flight or
\* pending, isRefreshing is false.
C20_RefreshingCleared ==
    (ByKind("refresh") = {} /\ ByKind("light") = {} /\ ~lightPending) => ~isRefreshing


\* C21: the OTP form is never submitted for verification while the field
\* holds anything but exactly 6 digits, the automatic submission included.
C21_SubmitOnlySixDigits ==
    otpSubmitted => (Len(otpValue) = 6 /\ \A i \in DOMAIN otpValue : otpValue[i] \in Digits)


\* C22: a deletion whose Undo was clicked within the 5 seconds has no
\* delete_messages call, and its row is out of hiddenMessageIds and still in
\* state.messages; a deletion whose timer ran out without Undo has exactly
\* one call; while the timer runs there is none.
C22_UndoableDelete ==
    \A i \in OpsRows :
        /\ opsTrash[i].phase = "armed" => opsTrash[i].rpcs = 0
        /\ opsTrash[i].phase = "undone" =>
               (opsTrash[i].rpcs = 0 /\ i \notin opsHidden /\ i \in opsRows)
        /\ opsTrash[i].phase = "fired" => opsTrash[i].rpcs = 1


\* C23: _updatingFee is true exactly while an update-fee RPC of the widget
\* is in flight, and at most one is in flight.
C23_FlagIffInFlight ==
    /\ updatingFee <=> feeInflight # {}
    /\ Cardinality(feeInflight) <= 1

\* C23 witness: after a call that failed and one that succeeded, a third
\* request is in flight.
C23_Witness ==
    /\ updatingFee /\ feeSentCount = 3 /\ feeLogged = 1 /\ feeUpdated
    /\ Cardinality(feeInflight) = 1

\* C24: after the unmount no idle_subscribe or idle_touch call is issued and
\* the 30 s interval is not active; once onMounted has run to its end every
\* token subscribed has been unsubscribed.
C24_QuietAfterUnmount ==
    idlePhase = "unmounted" =>
        /\ idleLate = {}
        /\ ~idlePing
        /\ idlePos = MaxAccounts + 1 => idleSubscribed \subseteq idleUnsubscribed


\* C25: a composer has at most one save_draft request with draft_id null
\* that did not fail.
C25_OneDraftCreated == drNullLive <= 1

\* C26: the send_email request carries the id of the draft that the
\* saveDraft call of sendMail has just stored.
C26_SendCarriesDraftId == (drSent.issued /\ drSent.saved) => drSent.draft_id = drSent.stored

\* C27: a completed markSelectedAsRead or markSelectedAsUnread changes the
\* current folder's unread_count by exactly the number of distinct messages
\* whose read state changed (row of state.messages or state.selectedMessage),
\* floored at 0: a message updated in both places counts once.
C27_UnreadByDistinctChanged ==
    [][\A r \in opsInflight :
         (/\ r.op \in {"read", "unread"}
          /\ opsInflight' = opsInflight \ {r}
          /\ opsUnhandled' = opsUnhandled)
         => LET changed == { i \in OpsRows :
                               \/ (i \in opsRead) # (i \in opsRead')
                               \/ /\ opsSelected.id = i
                                  /\ opsSelected'.id = i
                                  /\ opsSelected'.is_read # opsSelected.is_read }
                n == Cardinality(changed)
            IN  opsUnread' = BumpFolderUnread(opsUnread,
                                              IF r.op = "read" THEN 0 - n ELSE n)]_vars

\* C28: once every ContactPickerDialog reload has completed, state.total
\* and state.results are those of the search text and page in the state: a
\* slower answer for an earlier search or page has not overwritten them.
C28_LatestReloadWins ==
    (cpStarted /\ cpInflight = {} /\ ~cpDebounce)
        => /\ cpTotal = CountPartners(cpSearch)
           /\ cpResults = GetPartners(cpSearch, CpStart)

\* C29: when apply() reloads the page after resetting, the colour-scheme
\* ir.asset records are exactly those of the selected preset created by this
\* call (the earlier ones removed, the new ones present), and the reset of
\* this call has deleted none of the records this call created.
C29_ResetBeforeReload ==
    (paApply = "reloaded" /\ paLast.installed)
        => /\ paLast.atReload = PaPresetRecords(paCall, paPreset)
           /\ ~paLast.deletedOwn

\* C30: from a click on the Resend button the button is disabled and its
\* label counts down during 60 one-second ticks, the 60th tick enables it
\* again with the label 'Resend Code', and at most one countdown timer is
\* pending at any time.
C30_ResendCooldown ==
    /\ Cardinality(rsPending) <= 1
    /\ rsClicks > 0 =>
           /\ rsTicks <= ResendSeconds
           /\ rsTicks < ResendSeconds =>
                  /\ rsDisabled
                  /\ rsText = RsCountdownText(ResendSeconds - rsTicks)
                  /\ Cardinality(rsPending) = 1
           /\ rsTicks = ResendSeconds =>
                  /\ ~rsDisabled
                  /\ rsText = RsPlainText
                  /\ rsPending = {}

\* The second countdown has run out and the button is enabled again.
C30_Witness ==
    /\ rsClicks = MaxResendClicks
    /\ rsTicks = ResendSeconds
    /\ ~rsDisabled
    /\ rsText = RsPlainText

====
